---- MODULE Spec2Model ----
(***************************************************************************)
(* Make-It-Animatable: the animation request router (server/router.py) and *)
(* the worker it routes to (server/server.py).                             *)
(*                                                                         *)
(* The router holds an ordered list of worker servers and an               *)
(* itertools.cycle over it.  Every accepted POST /animate takes the next   *)
(* worker of the cycle, forwards the request with httpx and relays the     *)
(* worker's answer, or maps the failure of the forward to an HTTP error.   *)
(*                                                                         *)
(* A worker verifies the credential of a request with the identity         *)
(* service, behind a cache of 300 seconds, and then runs the pipeline on   *)
(* the mesh of the request.                                                *)
(*                                                                         *)
(* A request handler is a coroutine on a single event loop: it runs        *)
(* without interruption between two awaits.  The model has one action per  *)
(* stretch of a handler between two awaits; the handler of the worker,     *)
(* which awaits nothing after its dependency, is cut at its calls.         *)
(*                                                                         *)
(* Spec follows the concurrent dispatches of the router, SpecEnvelope one  *)
(* request of the router with its body and headers, SpecAuth the           *)
(* concurrent verifications of the worker, SpecAnimate one request of the  *)
(* worker from its arrival to its response.                                *)
(***************************************************************************)
EXTENDS Integers, Sequences, FiniteSets, TLC

\* ------------------------------------------------------------------ bounds

\* Requests the router handles at the same time.
MaxInFlight == 2
\* Requests the router accepts in one run of the model.
MaxDispatch == 4

\* --------------------------------------------------------------- constants

\* router.py: WORKER_TIMEOUT = 300.0 (seconds)
WORKER_TIMEOUT == 300

Slots == 1..MaxInFlight

Envs == {"dev", "prod"}

\* create_app: worker_ports of the environment.
WorkerPorts(env) ==
  IF env = "dev" THEN <<8001, 8002, 8003>> ELSE <<9001, 9002, 9003>>

\* create_app: worker_servers_list = [f"http://localhost:{p}" for p in worker_ports].
\* A worker URL is modelled by its port: the formatting is one-to-one.
WorkerServersList(env) == [i \in 1..Len(WorkerPorts(env)) |-> WorkerPorts(env)[i]]

NoWorker == 0

\* launch_servers.py: CONFIG_MAPPING; launch_all_servers starts server.py on
\* each of worker_ports and router.py on router_port with --env.
LaunchConfig_RouterAmongWorkers(env) ==
  IF env = "dev" THEN [worker_ports |-> <<8000, 8001, 8002>>, router_port |-> 8000]
  ELSE [worker_ports |-> <<9001, 9002, 9003>>, router_port |-> 9000]

LaunchConfig(env) ==
  IF env = "dev" THEN [worker_ports |-> <<8001, 8002, 8003>>, router_port |-> 8000]
  ELSE [worker_ports |-> <<9001, 9002, 9003>>, router_port |-> 9000]

\* kill_servers.py: CONFIG_MAPPING; kill_all_servers_by_port kills what
\* listens on worker_ports + [router_port].
KillConfig(env) ==
  IF env = "dev" THEN [worker_ports |-> <<8001, 8002, 8003>>, router_port |-> 8000]
  ELSE [worker_ports |-> <<9001, 9002, 9003>>, router_port |-> 9000]

AllPorts(config) == config.worker_ports \o <<config.router_port>>

\* ------------------------------------------------------------- HTTP values

SuccessStatuses == {200, 201}
ErrorStatuses == {404, 500}

Absent == "<absent>"
WorkerDetails == {"Pipeline failed: boom"}
WorkerData == {"mesh-1"}

\* A body on the wire.  fmt "json" is a JSON object with an optional member
\* "detail" and its other members (data); fmt "text" is a body that is not JSON.
JsonObject(detail, data) == [fmt |-> "json", detail |-> detail, data |-> data]
Text(data) == [fmt |-> "text", detail |-> Absent, data |-> data]

NoBody == Text(Absent)

\* What a worker can answer on a connection that works.
WorkerReplies ==
  [status : SuccessStatuses,
   body : {JsonObject(Absent, d) : d \in WorkerData} \cup {Text("OK")}]
  \cup
  [status : ErrorStatuses,
   body : {JsonObject(d, Absent) : d \in WorkerDetails}
          \cup {JsonObject(Absent, "error-1"), Text("Internal Server Error")}]

\* The transport between the router and a worker, for one call: whether the
\* connection is refused, how long each phase of the call takes (seconds), and
\* whether the worker breaks the protocol while answering.
PhaseDurations == {1, WORKER_TIMEOUT + 1}
Networks ==
  [refused : BOOLEAN, connect : PhaseDurations, write : PhaseDurations,
   read : PhaseDurations, broken : BOOLEAN]

Raised(kind) == [kind |-> kind, status |-> 0, body |-> NoBody]
Responded(reply) == [kind |-> "response", status |-> reply.status, body |-> reply.body]
NoResult == Raised("none")

\* client.post(url, json=..., headers=..., timeout=WORKER_TIMEOUT): httpx applies
\* the timeout to each phase of the call and raises the exception of the first
\* phase that fails.
HttpxPost(net, reply, timeout) ==
  IF net.refused THEN Raised("ConnectError")
  ELSE IF net.connect > timeout THEN Raised("ConnectTimeout")
  ELSE IF net.write > timeout THEN Raised("WriteTimeout")
  ELSE IF net.read > timeout THEN Raised("ReadTimeout")
  ELSE IF net.broken THEN Raised("RemoteProtocolError")
  ELSE Responded(reply)

\* Everything the forward of one request can return or raise.
PostResults ==
  {HttpxPost(net, reply, WORKER_TIMEOUT) : net \in Networks, reply \in WorkerReplies}

TimeoutKinds == {"ConnectTimeout", "WriteTimeout", "ReadTimeout"}

\* response.raise_for_status(): HTTPStatusError unless the status is 2xx.
IsSuccess(status) == status >= 200 /\ status < 300

\* response.json() is defined on JSON bodies only and raises on any other body.
IsJson(body) == body.fmt = "json"

\* response.json(): the members of the JSON object.
ResponseJson(body) == [detail |-> body.detail, data |-> body.data]

\* ---------------------------------------------------------------- the relay

\* JSONResponse(content=..., status_code=...): the content rendered as JSON.
JSONResponse(content, status_code) ==
  [status |-> status_code, body |-> JsonObject(content.detail, content.data)]

\* raise HTTPException(status_code=..., detail=...): the framework answers with
\* the status code and the JSON body {"detail": detail}.
HTTPException(status_code, detail) ==
  JSONResponse([detail |-> detail, data |-> Absent], status_code)

NoResponse == [status |-> 0, body |-> NoBody]

\* An exception that leaves route_animation_request: the framework answers
\* 500 with a plain-text body.
Unhandled ==
  [pc |-> "UNHANDLED",
   response |-> [status |-> 500, body |-> Text("Internal Server Error")]]

\* except httpx.HTTPStatusError: worker_response_body = e.response.json(), then
\* the worker's status code with worker_response_body.get("detail", <fixed text>).
RelayWorkerError(res) ==
  IF IsJson(res.body)
  THEN [pc |-> "WORKER-ERROR",
        response |-> HTTPException(res.status,
                       IF ResponseJson(res.body).detail # Absent
                       THEN ResponseJson(res.body).detail
                       ELSE "An unknown error occurred on the worker server.")]
  ELSE Unhandled

\* return JSONResponse(content=response.json(), status_code=response.status_code)
RelaySuccess_Rewrap(res) ==
  IF IsJson(res.body)
  THEN [pc |-> "SUCCESS",
        response |-> JSONResponse([detail |-> Absent, data |-> "wrapped"], 200)]
  ELSE Unhandled

RelaySuccess(res) ==
  IF IsJson(res.body)
  THEN [pc |-> "SUCCESS", response |-> JSONResponse(ResponseJson(res.body), res.status)]
  ELSE Unhandled

\* The try/except around client.post and the return after it: what the caller
\* gets for each result of the forward, and the state the request ends in.
Relay_Retry(res) ==
  CASE res.kind = "ConnectError" -> [pc |-> "CREATED", response |-> NoResponse]
    [] res.kind = "ReadTimeout" ->
         [pc |-> "TIMEOUT", response |-> HTTPException(504, "timed out")]
    [] res.kind = "response" /\ ~IsSuccess(res.status) -> RelayWorkerError(res)
    [] res.kind = "response" /\ IsSuccess(res.status) -> RelaySuccess(res)
    [] OTHER -> Unhandled

Relay_Unavailable500(res) ==
  CASE res.kind = "ConnectError" ->
         [pc |-> "CONNECT-FAILURE", response |-> HTTPException(500, "could not connect")]
    [] res.kind = "ReadTimeout" ->
         [pc |-> "TIMEOUT", response |-> HTTPException(504, "timed out")]
    [] res.kind = "response" /\ ~IsSuccess(res.status) -> RelayWorkerError(res)
    [] res.kind = "response" /\ IsSuccess(res.status) -> RelaySuccess(res)
    [] OTHER -> Unhandled

Relay(res) ==
  CASE res.kind = "ConnectError" ->
         [pc |-> "CONNECT-FAILURE", response |-> HTTPException(503, "could not connect")]
    [] res.kind = "ReadTimeout" ->
         [pc |-> "TIMEOUT", response |-> HTTPException(504, "timed out")]
    [] res.kind = "response" /\ ~IsSuccess(res.status) -> RelayWorkerError(res)
    [] res.kind = "response" /\ IsSuccess(res.status) -> RelaySuccess(res)
    [] OTHER -> Unhandled

\* ---------------------------------------------------------- itertools.cycle

\* itertools.cycle(worker_servers_list): the saved items and the position of
\* the item the next call returns (0-based).
Cycle(items) == [saved |-> items, index |-> 0]

\* next(cycle): the item at the position, and the cycle moved one position on,
\* back to the first item after the last.
CycleNext_Stuck(cyc) ==
  [item |-> cyc.saved[cyc.index + 1], cycle |-> cyc]

CycleNext_Skip(cyc) ==
  [item |-> cyc.saved[cyc.index + 1],
   cycle |-> [cyc EXCEPT !.index = (cyc.index + 2) % Len(cyc.saved)]]

CycleNext(cyc) ==
  [item |-> cyc.saved[cyc.index + 1],
   cycle |-> [cyc EXCEPT !.index = (cyc.index + 1) % Len(cyc.saved)]]

\* ------------------------------------------------------- AnimationRequest

\* animation_name: Literal["running", "jumping", "punching", "walking", "waving"]
AnimationNames == {"running", "jumping", "punching", "walking", "waving"}

\* The members of a JSON body a caller can send.  A member is Absent or a JSON
\* value.  is_gs stands for the boolean options of AnimationRequest and
\* animation_file for the optional strings; extra is a member the model does
\* not declare.
CallerBodies ==
  [mesh_b64_str : {Absent, "Z2xURg=="},
   animation_name : {"running", "dancing"},
   is_gs : {Absent, "true", "\"yes\""},
   animation_file : {Absent, "\"/tmp/x.fbx\""},
   extra : {Absent, "\"high\""}]

\* The headers a caller can send (the framework lower-cases the names).
CallerHeaders ==
  [content_type : {"application/json; charset=utf-8"},
   authorization : {Absent, "Bearer token-1"},
   x_api_key : {Absent, "key-1"},
   cookie : {Absent, "session=1"}]

CallerRequests == [body : CallerBodies, headers : CallerHeaders]

Invalid == "<invalid>"

\* pydantic's validation of a bool field: a JSON boolean, or one of the
\* strings and numbers that stand for one.
ParseBool(v) ==
  CASE v \in {"true", "\"yes\"", "\"true\"", "1"} -> "true"
    [] v \in {"false", "\"no\"", "\"false\"", "0"} -> "false"
    [] OTHER -> Invalid

\* payload: AnimationRequest -- the body is accepted when the required members
\* are there and every declared member has a value of its type.
ValidEnvelope(body) ==
  /\ body.mesh_b64_str # Absent
  /\ body.animation_name \in AnimationNames
  /\ body.is_gs # Absent => ParseBool(body.is_gs) # Invalid

\* The AnimationRequest built from an accepted body: declared members with
\* their validated values, the defaults for those the caller left out.
AnimationRequest(body) ==
  [mesh_b64_str |-> body.mesh_b64_str,
   animation_name |-> body.animation_name,
   is_gs |-> IF body.is_gs = Absent THEN "false" ELSE ParseBool(body.is_gs),
   animation_file |-> IF body.animation_file = Absent THEN "null"
                      ELSE body.animation_file]

\* json=payload.model_dump(): every declared field, and nothing else.
ModelDump_NoDefaults(payload) ==
  [mesh_b64_str |-> payload.mesh_b64_str,
   animation_name |-> payload.animation_name,
   is_gs |-> IF payload.is_gs = "false" THEN Absent ELSE payload.is_gs,
   animation_file |-> payload.animation_file,
   extra |-> Absent]

ModelDump(payload) ==
  [mesh_b64_str |-> payload.mesh_b64_str,
   animation_name |-> payload.animation_name,
   is_gs |-> payload.is_gs,
   animation_file |-> payload.animation_file,
   extra |-> Absent]

\* headers_to_forward: Content-Type, then Authorization and x-api-key when the
\* caller sent them.
HeadersToForward_All(headers) ==
  [headers EXCEPT !.content_type = "application/json"]

HeadersToForward(headers) ==
  [content_type |-> "application/json",
   authorization |-> headers.authorization,
   x_api_key |-> headers.x_api_key,
   cookie |-> Absent]

NoRequest ==
  [body |-> [mesh_b64_str |-> Absent, animation_name |-> Absent, is_gs |-> Absent,
             animation_file |-> Absent, extra |-> Absent],
   headers |-> [content_type |-> Absent, authorization |-> Absent,
                x_api_key |-> Absent, cookie |-> Absent]]

NoCall == [url |-> NoWorker, json |-> NoRequest.body, headers |-> NoRequest.headers]

\* The body of GET /health.
HealthBody(workers) ==
  [status |-> "ok", message |-> "Router is active.", configured_workers |-> workers]

NoHealth == [status |-> Absent, message |-> Absent, configured_workers |-> <<>>]

\* ------------------------------------------------- the authentication gate

\* @cached(ttl=300, cache=Cache.MEMORY), in seconds
CACHE_TTL == 300

\* The clock of the model advances by half a TTL at a time.
ClockStep == CACHE_TTL \div 2

\* endpoints of _fetch_user_data_from_api, in the order they are tried
Endpoints == <<"https://api.csm.ai/user/userdata", "https://devapi.csm.ai/user/userdata">>

\* Header(None): the values a caller can send in x-api-key and Authorization
ApiKeyValues == {Absent, "", "k1", "k2"}
AuthorizationValues == {Absent, "k1"}
AuthHeaders == [x_api_key : ApiKeyValues, authorization : AuthorizationValues]

Credential(name, value) == [name |-> name, value |-> value]
NoCredential == Credential(Absent, Absent)
\* `if x_api_key:` is true of a header that is there and not empty
Given(value) == value \notin {Absent, ""}
Credentials == {Credential("x-api-key", v) : v \in {k \in ApiKeyValues : Given(k)}}
                 \cup {Credential("Authorization", v) : v \in {k \in AuthorizationValues : Given(k)}}

\* _verify_api_key, the choice of the header that is verified: x-api-key when
\* it has a value, else Authorization when it has a value, else none.
SelectCredential_AuthorizationFirst(headers) ==
  IF Given(headers.authorization) THEN Credential("Authorization", headers.authorization)
  ELSE IF Given(headers.x_api_key) THEN Credential("x-api-key", headers.x_api_key)
  ELSE NoCredential

SelectCredential(headers) ==
  IF Given(headers.x_api_key) THEN Credential("x-api-key", headers.x_api_key)
  ELSE IF Given(headers.authorization) THEN Credential("Authorization", headers.authorization)
  ELSE NoCredential

\* resp.json() of a 200 answer: the user's record at the identity service
UserData(cred) == [user |-> cred]
NoUserData == [user |-> NoCredential]

\* What client.get(url, headers={header_name: header_value}) can give: status
\* 200 with the user's record ("accept"), status 200 with a body that is not
\* JSON ("garbled"), another status ("reject"), or an httpx.RequestError
\* ("unreachable").
NotAsked == "not-asked"
IdentityAnswers == {"accept", "garbled", "reject", "unreachable"}

\* The outcome of a verification: the user's record, or the HTTPException.
Verified(data) == [status |-> 200, data |-> data]
Refused(status_code) == [status |-> status_code, data |-> NoUserData]
NoOutcome == [status |-> 0, data |-> NoUserData]

\* for url in endpoints: status 200 returns resp.json() (an exception of
\* resp.json() leaves the loop and becomes "Auth check failed" in
\* _verify_api_key), httpx.RequestError and any other status go on to the next
\* endpoint; after the loop HTTPException(403).
RECURSIVE TryEndpoints(_, _, _)
TryEndpoints(cred, answers, i) ==
  IF i > Len(answers) THEN Refused(403)
  ELSE CASE answers[i] = "accept" -> Verified(UserData(cred))
         [] answers[i] = "garbled" -> Refused(500)
         [] OTHER -> TryEndpoints(cred, answers, i + 1)

\* _fetch_user_data_from_api without @cached, as _verify_api_key sees it
FetchUserDataFromApi(cred, answers) == TryEndpoints(cred, answers, 1)

\* aiocache builds the key of an entry from the function and its arguments
\* (header_name, header_value).
CacheKey_NameOnly(cred) == Credential(cred.name, "k1")

CacheKey_ValueOnly(cred) == Credential("x-api-key", cred.value)

CacheKey(cred) == cred

CacheKeys == {CacheKey(c) : c \in Credentials}

\* the entries of the aiocache memory cache
NoEntry == [value |-> NoUserData, ttl_left |-> 0]
Entry(data) == [value |-> data, ttl_left |-> CACHE_TTL]

Verifiers == {"v1", "v2"}
NoVerify ==
  [pc |-> "IDLE", cred |-> NoCredential, hit |-> FALSE, retry |-> FALSE,
   primary |-> NotAsked, fallback |-> NotAsked,
   outcome |-> NoOutcome, uncached |-> NoOutcome]

\* ------------------------------------------------ the worker's POST /animate

\* base64.b64decode(payload.mesh_b64_str) of the payloads of the model: the
\* bytes, or binascii.Error for a string with incorrect padding
DecodeError == <<"binascii.Error">>
MeshPayloads == {"", "Z2xURg==", "Z2xURnY=", "Z2xU", "S2F5ZGFyYSBGQlg=", "dg==", "Z2xURg"}
B64Decode(str) ==
  CASE str = "" -> <<>>
    [] str = "Z2xURg==" -> <<"g", "l", "T", "F">>
    [] str = "Z2xURnY=" -> <<"g", "l", "T", "F", "v">>
    [] str = "Z2xU" -> <<"g", "l", "T">>
    [] str = "S2F5ZGFyYSBGQlg=" -> <<"K", "a", "y", "d", "a", "r", "a", " ", "F", "B", "X">>
    [] str = "dg==" -> <<"v">>
    [] OTHER -> DecodeError

\* os.path.join(PARENT_DIR, "animation-fbx-files", f"{animation_name}.fbx")
LibraryPath(animation_name) ==
  [dir |-> "PARENT_DIR/animation-fbx-files", file |-> animation_name, suffix |-> ".fbx"]
\* Path("/home/ray/csm/models/make_it_animatable/data") / f"{animation_name}.fbx"
PipelinePath(animation_name) ==
  [dir |-> "/home/ray/csm/models/make_it_animatable/data", file |-> animation_name,
   suffix |-> ".fbx"]
NoPath == [dir |-> Absent, file |-> Absent, suffix |-> Absent]
\* a path a caller can send in animation_file
ClientPath == [dir |-> "/tmp", file |-> "x", suffix |-> ".fbx"]

\* the body of a POST /animate of the worker, after the JSON was read
WorkerBodies ==
  [mesh_b64_str : MeshPayloads, animation_name : {"running", "waving", "dancing"},
   animation_file : {NoPath, ClientPath}, no_fingers : BOOLEAN]
NoPayload ==
  [mesh_b64_str |-> Absent, animation_name |-> Absent, animation_file |-> NoPath,
   no_fingers |-> FALSE]

\* _prepare_input_memory: the extension of the scratch file, from the first
\* bytes of the mesh
StartsWith(bytes, prefix) ==
  Len(bytes) >= Len(prefix) /\ SubSeq(bytes, 1, Len(prefix)) = prefix
GlbSignature == <<"g", "l", "T", "F">>
FbxSignature == <<"K", "a", "y", "d", "a", "r", "a", " ", "F", "B", "X">>
MeshExtension_GlbUnlessFbx(mesh_bytes) ==
  IF StartsWith(mesh_bytes, FbxSignature) THEN ".fbx" ELSE ".glb"

MeshExtension(mesh_bytes) ==
  CASE StartsWith(mesh_bytes, GlbSignature) -> ".glb"
    [] StartsWith(mesh_bytes, FbxSignature) -> ".fbx"
    [] OTHER -> Invalid

\* tempfile.NamedTemporaryFile(dir="/dev/shm", delete=False): a file of a name
\* that no existing file has
ScratchNames == <<"/dev/shm/tmp-a", "/dev/shm/tmp-b">>
FreshName_First(existing) == ScratchNames[1]

FreshName(existing) ==
  LET i == CHOOSE i \in 1..Len(ScratchNames) :
             /\ ScratchNames[i] \notin existing
             /\ \A k \in 1..(i - 1) : ScratchNames[k] \in existing
  IN ScratchNames[i]
NoFile == "<no file>"

\* the steps of run_pipeline that run the external pipeline
PipelineStages == <<"prepare_input", "preprocess", "infer", "vis", "vis_blender">>

\* the arguments of vis_blender that depend on nothing but the request
VisBlenderArgs(animation_file, remove_fingers) ==
  [animation_file |-> animation_file, remove_fingers |-> remove_fingers]
NoArgs == VisBlenderArgs(NoPath, FALSE)

\* base_path.parent / f"{base_path.stem}_render_output", for the GLB that the
\* pipeline wrote for the scratch file
RenderDir(tmp_input) == [stem |-> tmp_input, suffix |-> "_render_output"]
NoDir == RenderDir(NoFile)

\* the content of a success response
Artifacts_OmitNone(glb, gif, thumbnail) ==
  LET all == [mesh_base64 |-> glb, gif_base64 |-> gif, thumbnail_base64 |-> thumbnail]
  IN [k \in {f \in DOMAIN all : all[f] # "null"} |-> all[k]]

Artifacts(glb, gif, thumbnail) ==
  [mesh_base64 |-> glb, gif_base64 |-> gif, thumbnail_base64 |-> thumbnail]
Null == "null"

\* the steps of the rendering block of animate
RenderSteps == <<"os.makedirs", "render_thumbnail", "render_frames">>

\* the call of the handler that raised an exception, if one did
NoRaise == "<none>"

\* the verifier that runs the Depends(_verify_api_key) of the request
JobVerifier == "v1"

\* the calls of animate that one worker has in flight at a time
CallIds == {"c1", "c2"}

\* the stem of db.anim_vis_path when the pipeline does not name its output
\* after its input file
SharedStem == "output"

NoInflight ==
  [pc |-> "NONE", tmp_input |-> NoFile, leaked |-> FALSE, output_dir |-> NoDir]

NoJob ==
  [pc |-> "NONE", headers |-> [x_api_key |-> Absent, authorization |-> Absent],
   payload |-> NoPayload, checked |-> NoPath, mesh_bytes |-> <<>>, ext |-> Absent,
   tmp_input |-> NoFile, input_filepath |-> NoFile, calls |-> <<>>,
   vis_blender |-> NoArgs, output_dir |-> NoDir, gif |-> FALSE, thumbnail |-> FALSE,
   found |-> FALSE, decoded |-> FALSE, rmtree_raised |-> FALSE, raised |-> NoRaise, response |-> NoResponse]

\* ------------------------------------------------ run_job (job_handler.py)

\* job.input_mesh_url, as the pieces that "." and "?" separate it into
JobUrls ==
  {<<"https://store/mesh", ".", "glb">>,
   <<"https://store/mesh", ".", "fbx", "?", "sig=1">>}

\* str.split(sep)[-1]: what follows the last sep, the whole string without one
SplitLast(str, sep) ==
  IF str = <<>> THEN <<>>
  ELSE IF \E i \in 1..Len(str) : str[i] = sep
       THEN LET i == CHOOSE k \in 1..Len(str) :
                       str[k] = sep /\ \A m \in (k + 1)..Len(str) : str[m] # sep
            IN SubSeq(str, i + 1, Len(str))
       ELSE str

\* str.split(sep)[0]: what precedes the first sep, the whole string without one
SplitFirst(str, sep) ==
  IF \E i \in 1..Len(str) : str[i] = sep
  THEN LET i == CHOOSE k \in 1..Len(str) :
                  str[k] = sep /\ \A m \in 1..(k - 1) : str[m] # sep
       IN SubSeq(str, 1, i - 1)
  ELSE str

\* mesh_extension = job.input_mesh_url.split(".")[-1].split("?")[0]
UrlExtension(url) == SplitFirst(SplitLast(url, "."), "?")

\* self._scratch_dir() / f"mesh.{mesh_extension}"
MeshPath(url) == <<"scratch_dir/mesh", ".">> \o UrlExtension(url)

\* the bytes that _download_file can have written to mesh_path
DownloadedBytes == {B64Decode(p) : p \in {"", "Z2xURg==", "S2F5ZGFyYSBGQlg=", "dg=="}}

\* the statements of run_job, in the order of the source
RunJobOrder_PipelineBeforeCheckpoint ==
  <<"DOWNLOAD", "READ", "PIPELINE", "CHECKPOINT_MESH", "CHECKPOINT_ANIMATION",
    "UPLOAD", "RETURN", "RETURNED">>

RunJobOrder ==
  <<"DOWNLOAD", "CHECKPOINT_MESH", "READ", "PIPELINE", "CHECKPOINT_ANIMATION",
    "UPLOAD", "RETURN", "RETURNED">>

\* the statement that follows the one at pc
Then(at) ==
  LET i == CHOOSE k \in 1..Len(RunJobOrder) : RunJobOrder[k] = at
  IN RunJobOrder[i + 1]

NoUpdate == [status |-> Absent, output_glb_url |-> Absent]

\* MakeItAnimatableJobUpdate(status="complete", output_glb_url=glb_url)
MakeItAnimatableJobUpdate(glb_url) == [status |-> "complete", output_glb_url |-> glb_url]

NoHandler ==
  [pc |-> "IDLE", input_mesh_url |-> <<>>, animation_name |-> Absent,
   mesh_path |-> <<>>, file |-> <<>>, mesh_bytes |-> <<>>, anim_vis_path |-> Null,
   glb_url |-> Absent, trace |-> <<>>, raised |-> NoRaise, update |-> NoUpdate]

\* -------------------------------------------------------------------- state

VARIABLES
  worker_servers,  \* app.state.worker_servers
  server_cycle,    \* app.state.server_cycle
  pc,              \* per request: where its handler is
  worker,          \* per request: worker_url, NoWorker before the selection
  result,          \* per request: what client.post returned or raised
  response,        \* per request: what the router answered to the caller
  seq,             \* per request: how many selections were made before its own
  cursor_seen,     \* per request: the position of the cycle its selection read
  selections,      \* per request: calls of next(server_cycle) made for it
  contacted,       \* per request: the workers a forward call was sent to
  dispatched       \* selections made since the router started

\* One request of the router followed with its envelope (body and headers).
VARIABLES
  request,         \* the caller's request: its JSON body and its headers
  stage,           \* where the handler of this request is
  forwarded,       \* the call sent to the worker: url, json body, headers
  answer,          \* what the router answered to the caller
  health           \* the answer of GET /health that is being sent

envelopeVars == <<request, stage, forwarded, answer, health>>

\* The worker's authentication gate: the aiocache memory cache of
\* _fetch_user_data_from_api and the calls of _verify_api_key in progress.
VARIABLES
  auth_cache,     \* (header_name, header_value) -> entry
  verify          \* verifier -> the call of _verify_api_key it is running

authVars == <<auth_cache, verify>>

\* The worker's POST /animate: the request being handled and the scratch
\* files of /dev/shm.
VARIABLES
  job,            \* the call of animate being handled, and what it has done
  shm,            \* the scratch files that exist in /dev/shm
  render_dirs,    \* the render output directories that exist
  inflight        \* call -> a call of animate in flight next to others

animateVars == <<job, shm, render_dirs, inflight>>

\* The job handler (job_handler.py): the call of run_job being made.
VARIABLES
  handler         \* the job run_job was given, where it is, and what it has done

workerVars == <<authVars, animateVars, handler>>

vars == <<worker_servers, server_cycle, pc, worker, result, response, seq,
          cursor_seen, selections, contacted, dispatched, envelopeVars, workerVars>>

Terminal == {"SUCCESS", "TIMEOUT", "CONNECT-FAILURE", "WORKER-ERROR", "UNHANDLED"}

\* No request is followed yet.
InitAuth ==
  /\ auth_cache = [k \in CacheKeys |-> NoEntry]
  /\ verify = [v \in Verifiers |-> NoVerify]

InitAnimate ==
  /\ job = NoJob
  /\ shm = {}
  /\ render_dirs = {}
  /\ inflight = [c \in CallIds |-> NoInflight]

InitEnvelope ==
  /\ request = NoRequest
  /\ stage = "IDLE"
  /\ forwarded = NoCall
  /\ answer = NoResponse
  /\ health = NoHealth

\* create_app(env)
Init ==
  \E env \in Envs :
    /\ InitEnvelope
    /\ InitAuth
    /\ InitAnimate
    /\ handler = NoHandler
    /\ worker_servers = WorkerServersList(env)
    /\ Len(worker_servers) > 0
    /\ server_cycle = Cycle(WorkerServersList(env))
    /\ pc = [r \in Slots |-> "NONE"]
    /\ worker = [r \in Slots |-> NoWorker]
    /\ result = [r \in Slots |-> NoResult]
    /\ response = [r \in Slots |-> NoResponse]
    /\ seq = [r \in Slots |-> 0]
    /\ cursor_seen = [r \in Slots |-> 0]
    /\ selections = [r \in Slots |-> 0]
    /\ contacted = [r \in Slots |-> <<>>]
    /\ dispatched = 0

\* The event loop can run the next stretch of the handler of request r.  The
\* forward is awaited (await client.post), so a request that waits for its
\* worker does not hold the event loop.
CanRun_Blocking(r) == \A s \in Slots \ {r} : pc[s] # "FORWARDING"

CanRun(r) == TRUE

\* The model has room for one more request.
HasRoom ==
  /\ \E s \in Slots : pc[s] = "NONE"
  /\ dispatched + Cardinality({s \in Slots : pc[s] = "CREATED"}) < MaxDispatch

\* POST /animate with a valid envelope is accepted: a handler is created.
\* Requests take the lowest free slot.
Arrive(r) ==
  /\ pc[r] = "NONE"
  /\ \A s \in Slots : s < r => pc[s] # "NONE"
  /\ HasRoom
  /\ CanRun(r)
  /\ pc' = [pc EXCEPT ![r] = "CREATED"]
  /\ UNCHANGED <<worker_servers, server_cycle, worker, result, response, seq,
                 cursor_seen, selections, contacted, dispatched, envelopeVars, workerVars>>

\* worker_url = next(app.state.server_cycle); forward_url = f"{worker_url}/animate"
Select(r) ==
  /\ pc[r] = "CREATED"
  /\ CanRun(r)
  /\ LET n == CycleNext(server_cycle) IN
       /\ worker' = [worker EXCEPT ![r] = n.item]
       /\ server_cycle' = n.cycle
  /\ seq' = [seq EXCEPT ![r] = dispatched]
  /\ cursor_seen' = [cursor_seen EXCEPT ![r] = server_cycle.index]
  /\ selections' = [selections EXCEPT ![r] = @ + 1]
  /\ dispatched' = dispatched + 1
  /\ pc' = [pc EXCEPT ![r] = "SELECTING-WORKER"]
  /\ UNCHANGED <<worker_servers, result, response, contacted, envelopeVars, workerVars>>

\* async with httpx.AsyncClient() as client: await client.post(url=forward_url, ...)
\* Entering the client is an await of its own, so other handlers may run between
\* the selection and the forward.  The call is sent to the selected worker and
\* the handler is suspended.
Forward(r) ==
  /\ pc[r] = "SELECTING-WORKER"
  /\ CanRun(r)
  /\ contacted' = [contacted EXCEPT ![r] = Append(@, worker[r])]
  /\ pc' = [pc EXCEPT ![r] = "FORWARDING"]
  /\ UNCHANGED <<worker_servers, server_cycle, worker, result, response, seq,
                 cursor_seen, selections, dispatched, envelopeVars, workerVars>>

\* The awaited call returns or raises; the handler runs to its end.
Complete_SkipFailed(r) ==
  /\ pc[r] = "FORWARDING"
  /\ CanRun(r)
  /\ \E res \in PostResults :
       LET out == Relay(res)
       IN /\ result' = [result EXCEPT ![r] = res]
          /\ response' = [response EXCEPT ![r] = out.response]
          /\ pc' = [pc EXCEPT ![r] = out.pc]
          /\ server_cycle' = IF out.pc = "CONNECT-FAILURE"
                             THEN CycleNext(server_cycle).cycle
                             ELSE server_cycle
  /\ UNCHANGED <<worker_servers, worker, seq, cursor_seen, selections,
                 contacted, dispatched, envelopeVars, workerVars>>

Complete(r) ==
  /\ pc[r] = "FORWARDING"
  /\ CanRun(r)
  /\ \E res \in PostResults :
       LET out == Relay(res)
       IN /\ result' = [result EXCEPT ![r] = res]
          /\ response' = [response EXCEPT ![r] = out.response]
          /\ pc' = [pc EXCEPT ![r] = out.pc]
  /\ UNCHANGED <<worker_servers, server_cycle, worker, seq, cursor_seen,
                 selections, contacted, dispatched, envelopeVars, workerVars>>

\* The answer has been sent to the caller: the handler is gone.
Retire(r) ==
  /\ pc[r] \in Terminal
  /\ pc' = [pc EXCEPT ![r] = "NONE"]
  /\ worker' = [worker EXCEPT ![r] = NoWorker]
  /\ result' = [result EXCEPT ![r] = NoResult]
  /\ response' = [response EXCEPT ![r] = NoResponse]
  /\ seq' = [seq EXCEPT ![r] = 0]
  /\ cursor_seen' = [cursor_seen EXCEPT ![r] = 0]
  /\ selections' = [selections EXCEPT ![r] = 0]
  /\ contacted' = [contacted EXCEPT ![r] = <<>>]
  /\ UNCHANGED <<worker_servers, server_cycle, dispatched, envelopeVars, workerVars>>

Next ==
  \/ \E r \in Slots : Arrive(r)
  \/ \E r \in Slots : Select(r)
  \/ \E r \in Slots : Forward(r)
  \/ \E r \in Slots : Complete(r)
  \/ \E r \in Slots : Retire(r)

Spec == Init /\ [][Next]_vars

\* ------------------------------------------- the router, one request followed

dispatchVars ==
  <<pc, worker, result, response, seq, cursor_seen, selections, contacted,
    dispatched>>

\* POST /animate arrives: the framework validates the body against
\* AnimationRequest before the handler runs, and answers 422 itself when the
\* body does not fit.
Receive_SelectFirst ==
  /\ stage = "IDLE"
  /\ \E req \in CallerRequests :
       /\ request' = req
       /\ IF ValidEnvelope(req.body)
          THEN stage' = "CREATED" /\ answer' = NoResponse
          ELSE stage' = "REJECTED"
               /\ answer' = HTTPException(422, "validation error")
  /\ server_cycle' = CycleNext(server_cycle).cycle
  /\ UNCHANGED <<worker_servers, forwarded, health, dispatchVars, workerVars>>

Receive ==
  /\ stage = "IDLE"
  /\ \E req \in CallerRequests :
       /\ request' = req
       /\ IF ValidEnvelope(req.body)
          THEN stage' = "CREATED" /\ answer' = NoResponse
          ELSE stage' = "REJECTED"
               /\ answer' = HTTPException(422, "validation error")
  /\ UNCHANGED <<worker_servers, server_cycle, forwarded, health, dispatchVars, workerVars>>

\* route_animation_request up to the awaited client.post: the next worker, the
\* headers to forward and the dumped payload.
Dispatch ==
  /\ stage = "CREATED"
  /\ LET n == CycleNext(server_cycle) IN
       /\ server_cycle' = n.cycle
       /\ forwarded' = [url |-> n.item,
                        json |-> ModelDump(AnimationRequest(request.body)),
                        headers |-> HeadersToForward(request.headers)]
  /\ stage' = "FORWARDING"
  /\ UNCHANGED <<worker_servers, request, answer, health, dispatchVars, workerVars>>

\* The awaited call returns or raises; the handler runs to its end.
Answer_Deregister ==
  /\ stage = "FORWARDING"
  /\ \E res \in PostResults :
       /\ answer' = Relay(res).response
       /\ stage' = Relay(res).pc
       /\ worker_servers' = IF res.kind = "ConnectError"
                            THEN SelectSeq(worker_servers,
                                           LAMBDA w : w # forwarded.url)
                            ELSE worker_servers
  /\ UNCHANGED <<server_cycle, request, forwarded, health, dispatchVars, workerVars>>

Answer ==
  /\ stage = "FORWARDING"
  /\ \E res \in PostResults :
       /\ answer' = Relay(res).response
       /\ stage' = Relay(res).pc
  /\ UNCHANGED <<worker_servers, server_cycle, request, forwarded, health,
                 dispatchVars, workerVars>>

\* The answer has been sent to the caller.
Done ==
  /\ stage \in Terminal \cup {"REJECTED"}
  /\ stage' = "IDLE"
  /\ request' = NoRequest
  /\ forwarded' = NoCall
  /\ answer' = NoResponse
  /\ UNCHANGED <<worker_servers, server_cycle, health, dispatchVars, workerVars>>

\* GET /health: health_check()
HealthCheck_Probe ==
  /\ health = NoHealth
  /\ health' = HealthBody(worker_servers)
  /\ server_cycle' = CycleNext(server_cycle).cycle
  /\ UNCHANGED <<worker_servers, request, stage, forwarded, answer, dispatchVars, workerVars>>

HealthCheck ==
  /\ health = NoHealth
  /\ health' = HealthBody(worker_servers)
  /\ UNCHANGED <<worker_servers, server_cycle, request, stage, forwarded, answer,
                 dispatchVars, workerVars>>

\* The answer of GET /health has been sent.
HealthSent ==
  /\ health # NoHealth
  /\ health' = NoHealth
  /\ UNCHANGED <<worker_servers, server_cycle, request, stage, forwarded, answer,
                 dispatchVars, workerVars>>

NextEnvelope ==
  \/ Receive
  \/ Dispatch
  \/ Answer
  \/ Done
  \/ HealthCheck
  \/ HealthSent

SpecEnvelope == Init /\ [][NextEnvelope]_vars

\* --------------------------------- the worker's authentication gate (server.py)

routerVars == <<worker_servers, server_cycle, dispatchVars, envelopeVars>>

\* for url in endpoints: the loop goes on to the next endpoint after an answer
\* that is neither status 200 nor an exception other than httpx.RequestError.
GoesOn_UnreachableOnly(a) == a = "unreachable"

GoesOn(a) == a \in {"reject", "unreachable"}

\* aiocache: the value the wrapped function returned is stored under the key
\* with the TTL; an exception of the function stores nothing.
CacheSet_Always(cache, cred, outcome) ==
  [cache EXCEPT ![CacheKey(cred)] = Entry(outcome.data)]

CacheSet(cache, cred, outcome) ==
  IF outcome.status = 200 THEN [cache EXCEPT ![CacheKey(cred)] = Entry(outcome.data)]
  ELSE cache

\* aiocache: an entry is deleted when its TTL has run out.
Expire_Keep(entry, elapsed) ==
  IF entry = NoEntry THEN NoEntry ELSE [entry EXCEPT !.ttl_left = entry.ttl_left - elapsed]

Expire(entry, elapsed) ==
  IF entry = NoEntry \/ entry.ttl_left <= elapsed THEN NoEntry
  ELSE [entry EXCEPT !.ttl_left = entry.ttl_left - elapsed]

Failure(outcome) == outcome.status \in {403, 500}

\* _verify_api_key is called with the headers of a request: it chooses the
\* header to verify, or raises 401 when there is none.
VerifyApiKey(v, headers) ==
  LET cred == SelectCredential(headers)
      prev == verify[v]
  IN verify' = [verify EXCEPT ![v] =
       IF cred = NoCredential
       THEN [NoVerify EXCEPT !.pc = "DONE", !.outcome = Refused(401), !.uncached = Refused(401)]
       ELSE [NoVerify EXCEPT !.pc = "LOOKUP", !.cred = cred,
                              !.retry = (prev.cred = cred /\ Failure(prev.outcome))]]

VerifyStart(v) ==
  /\ verify[v].pc \in {"IDLE", "DONE"}
  /\ \E headers \in AuthHeaders : VerifyApiKey(v, headers)
  /\ UNCHANGED <<auth_cache, routerVars, handler, animateVars>>

\* @cached looks the key up.  On a hit the stored value is returned and the
\* function is not called; `uncached` records what the function would have
\* returned with the answers the identity service gives at this moment.
CacheGet(v) ==
  /\ verify[v].pc = "LOOKUP"
  /\ LET cred == verify[v].cred
         entry == auth_cache[CacheKey(cred)]
     IN IF entry # NoEntry
        THEN /\ \E uncached \in {FetchUserDataFromApi(cred, answers) :
                                     answers \in [1..Len(Endpoints) -> IdentityAnswers]} :
                  verify' = [verify EXCEPT ![v].pc = "DONE", ![v].hit = TRUE,
                               ![v].outcome = Verified(entry.value),
                               ![v].uncached = uncached]
             /\ UNCHANGED auth_cache
        ELSE /\ verify' = [verify EXCEPT ![v].pc = "PRIMARY"]
             /\ UNCHANGED auth_cache
  /\ UNCHANGED <<routerVars, handler, animateVars>>

\* The answer of one endpoint: the record of status 200 is returned and stored,
\* an exception of resp.json() becomes 500 in _verify_api_key, and any other
\* answer leads to the next endpoint, or to 403 after the last one.
Answered(v, a, answers, last) ==
  LET cred == verify[v].cred
      outcome == CASE a = "accept" -> Verified(UserData(cred))
                   [] a = "garbled" -> Refused(500)
                   [] OTHER -> Refused(403)
  IN IF GoesOn(a) /\ ~last
     THEN /\ verify' = [verify EXCEPT ![v].pc = "FALLBACK", ![v].primary = a]
          /\ UNCHANGED auth_cache
     ELSE /\ verify' = [verify EXCEPT ![v].pc = "DONE",
                          ![v].primary = answers[1],
                          ![v].fallback = IF last THEN a ELSE NotAsked,
                          ![v].outcome = outcome,
                          ![v].uncached = FetchUserDataFromApi(cred, answers)]
          /\ auth_cache' = CacheSet(auth_cache, cred, outcome)

\* client.get on https://api.csm.ai/user/userdata
QueryPrimary(v) ==
  /\ verify[v].pc = "PRIMARY"
  /\ \E a \in IdentityAnswers : Answered(v, a, <<a>>, FALSE)
  /\ UNCHANGED <<routerVars, handler, animateVars>>

\* client.get on https://devapi.csm.ai/user/userdata
QueryFallback(v) ==
  /\ verify[v].pc = "FALLBACK"
  /\ \E a \in IdentityAnswers : Answered(v, a, <<verify[v].primary, a>>, TRUE)
  /\ UNCHANGED <<routerVars, handler, animateVars>>

\* Time passes: every entry is ClockStep seconds nearer to the end of its TTL.
Tick ==
  /\ \E k \in CacheKeys : auth_cache[k] # NoEntry
  /\ auth_cache' = [k \in CacheKeys |-> Expire(auth_cache[k], ClockStep)]
  /\ UNCHANGED <<verify, routerVars, handler, animateVars>>

NextAuth ==
  \/ \E v \in Verifiers : VerifyStart(v)
  \/ \E v \in Verifiers : CacheGet(v)
  \/ \E v \in Verifiers : QueryPrimary(v)
  \/ \E v \in Verifiers : QueryFallback(v)
  \/ Tick

SpecAuth == Init /\ [][NextAuth]_vars

\* ------------------------------------------ the worker's POST /animate (server.py)

\* the detail of the HTTPException of _verify_api_key
AuthDetail(status_code) ==
  CASE status_code = 401 -> "Missing auth header"
    [] status_code = 403 -> "Invalid credentials"
    [] OTHER -> "Auth check failed"

\* Depends(_verify_api_key): animate is called when the dependency returned.
Admitted_Unless403(outcome) == outcome.status # 403

Admitted(outcome) == outcome.status = 200

\* AnimationRequest of the worker: animation_name is a Literal of the five
\* names (mesh_b64_str is there in every body of the model).
ValidBody_AnyName(body) == body.animation_name # Absent

ValidBody(body) == body.animation_name \in AnimationNames

\* _prepare_input_memory, the checks before the scratch file: the exception
\* that is raised, or none.
ValidateMesh_SignatureOfNonEmpty(mesh_bytes) ==
  IF mesh_bytes # <<>> /\ MeshExtension(mesh_bytes) = Invalid
  THEN HTTPException(400, "Unsupported mesh format")
  ELSE NoResponse

ValidateMesh(mesh_bytes) ==
  IF mesh_bytes = <<>> THEN HTTPException(400, "Received empty mesh data")
  ELSE IF MeshExtension(mesh_bytes) = Invalid
  THEN HTTPException(400, "Unsupported mesh format")
  ELSE NoResponse

\* except Exception: the exception of a step of the pipeline is logged and
\* raised again as HTTPException(500), which is the response of this request.
Caught_Propagated(j, step, detail) == [j EXCEPT !.pc = "CRASHED", !.raised = step]

Caught(j, step, detail) ==
  [j EXCEPT !.pc = "RESPONDED", !.raised = step, !.response = HTTPException(500, detail)]

Respond(answered) == [job EXCEPT !.pc = "RESPONDED", !.response = answered]

Called(j, name) == [j EXCEPT !.calls = Append(j.calls, name)]

\* A POST /animate arrives: the framework calls the dependency _verify_api_key
\* with the credential headers of the request.
AnimateReceive ==
  /\ job.pc = "NONE"
  /\ verify[JobVerifier].pc \in {"IDLE", "DONE"}
  /\ \E headers \in AuthHeaders :
       /\ job' = [NoJob EXCEPT !.pc = "VERIFY", !.headers = headers]
       /\ VerifyApiKey(JobVerifier, headers)
  /\ UNCHANGED <<auth_cache, shm, render_dirs, routerVars, handler, inflight>>

\* The dependency has returned or raised.  An HTTPException of the dependency
\* is the response; else the body is validated as AnimationRequest, and animate
\* is called with a valid one.
DependencySolved ==
  /\ job.pc = "VERIFY"
  /\ verify[JobVerifier].pc = "DONE"
  /\ LET outcome == verify[JobVerifier].outcome
     IN IF ~Admitted(outcome)
        THEN job' = Respond(HTTPException(outcome.status, AuthDetail(outcome.status)))
        ELSE \E body \in WorkerBodies :
               job' = IF ValidBody(body)
                      THEN [job EXCEPT !.pc = "RESOLVE", !.payload = body]
                      ELSE [Respond(HTTPException(422, "validation error"))
                              EXCEPT !.payload = body]
  /\ UNCHANGED <<authVars, shm, render_dirs, routerVars, handler, inflight>>

\* animate, after os.path.exists(animation_file_path): 404 when the file is
\* not there, else its path is put into payload.animation_file.
IfExists_Unchecked(j, exists) ==
  [j EXCEPT !.pc = "DECODE", !.found = exists, !.payload.animation_file = j.checked]

IfExists(j, exists) ==
  IF exists
  THEN [j EXCEPT !.pc = "DECODE", !.found = TRUE, !.payload.animation_file = j.checked]
  ELSE [j EXCEPT !.pc = "RESPONDED",
                 !.response = HTTPException(404, "Animation file not found")]

\* animate: the animation file of the library is looked up.
ResolveAnimation_ClientFile ==
  /\ job.pc = "RESOLVE"
  /\ LET animation_file_path == IF job.payload.animation_file # NoPath
                                THEN job.payload.animation_file
                                ELSE LibraryPath(job.payload.animation_name)
         j == [Called(job, "os.path.exists") EXCEPT !.checked = animation_file_path]
     IN \E exists \in BOOLEAN : job' = IfExists(j, exists)
  /\ UNCHANGED <<authVars, shm, render_dirs, routerVars, handler, inflight>>

ResolveAnimation ==
  /\ job.pc = "RESOLVE"
  /\ LET animation_file_path == LibraryPath(job.payload.animation_name)
         j == [Called(job, "os.path.exists") EXCEPT !.checked = animation_file_path]
     IN \E exists \in BOOLEAN : job' = IfExists(j, exists)
  /\ UNCHANGED <<authVars, shm, render_dirs, routerVars, handler, inflight>>

\* animate: base64.b64decode(payload.mesh_b64_str), the argument of
\* run_pipeline; binascii.Error is an Exception of the inner try.
Decode ==
  /\ job.pc = "DECODE"
  /\ LET mesh_bytes == B64Decode(job.payload.mesh_b64_str)
     IN job' = IF mesh_bytes = DecodeError
               THEN [Respond(HTTPException(500, "Pipeline failed")) EXCEPT
                       !.decoded = TRUE, !.raised = "base64.b64decode"]
               ELSE [job EXCEPT !.pc = "PREPARE", !.decoded = TRUE,
                                !.mesh_bytes = mesh_bytes]
  /\ UNCHANGED <<authVars, shm, render_dirs, routerVars, handler, inflight>>

\* _prepare_input_memory up to the creation of the scratch file: 400 for empty
\* bytes and for bytes of no known signature, else NamedTemporaryFile creates a
\* file, or raises.
PrepareInputMemory ==
  /\ job.pc = "PREPARE"
  /\ IF ValidateMesh(job.mesh_bytes) # NoResponse
     THEN /\ job' = Respond(ValidateMesh(job.mesh_bytes))
          /\ UNCHANGED shm
     ELSE \/ /\ \E i \in 1..Len(ScratchNames) : ScratchNames[i] \notin shm
             /\ shm' = shm \cup {FreshName(shm)}
             /\ job' = [Called(job, "NamedTemporaryFile") EXCEPT
                          !.pc = "WRITE", !.ext = MeshExtension(job.mesh_bytes),
                          !.tmp_input = FreshName(shm)]
          \/ /\ job' = [Called(job, "NamedTemporaryFile") EXCEPT
                          !.pc = "RESPONDED", !.ext = MeshExtension(job.mesh_bytes),
                          !.raised = "NamedTemporaryFile",
                          !.response = HTTPException(500, "Mesh preparation failed")]
             /\ UNCHANGED shm
  /\ UNCHANGED <<authVars, render_dirs, routerVars, handler, inflight>>

\* _prepare_input_memory: the bytes are written and flushed and the name is
\* kept in input_filepath.  When write or flush raises, input_filepath is still
\* None and the finally clause unlinks nothing.
WriteScratch ==
  /\ job.pc = "WRITE"
  /\ \E written \in BOOLEAN :
       job' = IF written
              THEN [job EXCEPT !.pc = "PREPARE_INPUT", !.input_filepath = job.tmp_input]
              ELSE [Respond(HTTPException(500, "Mesh preparation failed")) EXCEPT
                      !.raised = "tmp_input.write"]
  /\ UNCHANGED <<authVars, shm, render_dirs, routerVars, handler, inflight>>

\* _prepare_input_memory: prepare_input runs on the scratch file, and the
\* finally clause unlinks the file.
PrepareInput ==
  /\ job.pc = "PREPARE_INPUT"
  /\ \E raised \in BOOLEAN :
       job' = IF raised
              THEN Caught(Called(job, "prepare_input"), "prepare_input",
                          "Mesh preparation failed")
              ELSE [Called(job, "prepare_input") EXCEPT !.pc = "STAGES"]
  /\ shm' = shm \ {job.input_filepath}
  /\ UNCHANGED <<authVars, render_dirs, routerVars, handler, inflight>>

\* run_pipeline after _prepare_input_memory: preprocess, infer, vis and
\* vis_blender run in this order until one raises.
RunStages ==
  /\ job.pc = "STAGES"
  /\ \E last \in 2..Len(PipelineStages), raised \in BOOLEAN :
       /\ last < Len(PipelineStages) => raised
       /\ LET j == [job EXCEPT
                      !.calls = job.calls \o SubSeq(PipelineStages, 2, last),
                      !.vis_blender =
                         IF last = Len(PipelineStages)
                         THEN VisBlenderArgs(PipelinePath(job.payload.animation_name), FALSE)
                         ELSE NoArgs]
          IN job' = IF raised
                    THEN Caught(j, PipelineStages[last], "Pipeline failed")
                    ELSE [j EXCEPT !.pc = "GLB"]
  /\ UNCHANGED <<authVars, shm, render_dirs, routerVars, handler, inflight>>

\* animate: db.anim_vis_path has to be a file.
CheckGlb ==
  /\ job.pc = "GLB"
  /\ \E produced \in BOOLEAN :
       job' = IF produced THEN [job EXCEPT !.pc = "RENDER"]
              ELSE Respond(HTTPException(500, "No GLB file was produced."))
  /\ UNCHANGED <<authVars, shm, render_dirs, routerVars, handler, inflight>>

\* animate: the render directory is made, then the thumbnail is rendered, then
\* the frames and the GIF, in one try block: the first of them that raises
\* ends the block and is logged.  render_thumbnail and render_frames write
\* their file as their last step.
Render ==
  /\ job.pc = "RENDER"
  /\ LET dir == RenderDir(job.tmp_input)
     IN \E last \in 1..Len(RenderSteps), raised \in BOOLEAN :
          /\ last < Len(RenderSteps) => raised
          /\ render_dirs' = IF last = 1 /\ raised THEN render_dirs
                            ELSE render_dirs \cup {dir}
          /\ job' = [job EXCEPT
                       !.pc = "PACKAGE", !.output_dir = dir,
                       !.calls = job.calls \o SubSeq(RenderSteps, 1, last),
                       !.raised = IF raised THEN RenderSteps[last] ELSE NoRaise,
                       !.thumbnail = (last > 2 \/ (last = 2 /\ ~raised)),
                       !.gif = (last = 3 /\ ~raised)]
  /\ UNCHANGED <<authVars, shm, routerVars, handler, inflight>>

\* animate: the files that exist are read and encoded; a file that is not
\* there is None in the response.
PackageResponse_AllOrNothing(j) ==
  IF j.gif /\ j.thumbnail
  THEN [status |-> 200, body |-> Artifacts("glb", "gif", "png")]
  ELSE HTTPException(500, "Pipeline failed")

PackageResponse(j) ==
  [status |-> 200,
   body |-> Artifacts("glb", IF j.gif THEN "gif" ELSE Null,
                      IF j.thumbnail THEN "png" ELSE Null)]

\* animate, the finally clause: shutil.rmtree(output_dir) removes the render
\* directory, or raises, which is logged.
Cleanup_Never(dirs, dir, removed) == dirs

Cleanup(dirs, dir, removed) == IF removed THEN dirs \ {dir} ELSE dirs

\* animate: the response is built; an exception of the reading of a file is
\* not caught and the framework answers 500.  On either way the finally clause
\* calls rmtree when the render directory is there.
Package ==
  /\ job.pc = "PACKAGE"
  /\ \E read \in BOOLEAN, removed \in BOOLEAN :
       LET isdir == job.output_dir \in render_dirs
           j == IF read THEN Respond(PackageResponse(job))
                ELSE [Respond(Unhandled.response) EXCEPT !.raised = "open"]
       IN /\ ~isdir => removed
          /\ job' = IF isdir
                    THEN [Called(j, "shutil.rmtree") EXCEPT !.rmtree_raised = ~removed]
                    ELSE j
          /\ render_dirs' = IF isdir THEN Cleanup(render_dirs, job.output_dir, removed)
                            ELSE render_dirs
  /\ UNCHANGED <<authVars, shm, routerVars, handler, inflight>>

\* The response has been sent.
AnimateSent ==
  /\ job.pc = "RESPONDED"
  /\ job' = NoJob
  /\ UNCHANGED <<authVars, shm, render_dirs, routerVars, handler, inflight>>

NextAnimate ==
  \/ AnimateReceive
  \/ CacheGet(JobVerifier)
  \/ QueryPrimary(JobVerifier)
  \/ QueryFallback(JobVerifier)
  \/ DependencySolved
  \/ ResolveAnimation
  \/ Decode
  \/ PrepareInputMemory
  \/ WriteScratch
  \/ PrepareInput
  \/ RunStages
  \/ CheckGlb
  \/ Render
  \/ Package
  \/ AnimateSent

SpecAnimate == Init /\ [][NextAnimate]_vars

\* ------------------------------------------------ two calls on one worker

\* animate is a coroutine that awaits nothing: from its first statement to
\* its return or raise the event loop runs no other handler.  The calls of the
\* worker interleave where the dependency _verify_api_key awaits the identity
\* service, and where the framework sends the response.
InBody == {"WRITE", "PREPARE_INPUT", "RENDER", "PACKAGE"}

EventLoopFree_Always(c) == TRUE

EventLoopFree(c) == \A d \in CallIds \ {c} : inflight[d].pc \notin InBody

\* A POST /animate arrives and its dependency awaits the identity service.
CallReceive(c) ==
  /\ inflight[c].pc = "NONE"
  /\ inflight' = [inflight EXCEPT ![c] = [NoInflight EXCEPT !.pc = "AWAIT"]]
  /\ UNCHANGED <<authVars, job, shm, render_dirs, routerVars, handler>>

\* The dependency raises, or the body is not valid: the framework answers,
\* animate is not called.  This too is run by the event loop.
CallRefused(c) ==
  /\ inflight[c].pc = "AWAIT"
  /\ EventLoopFree(c)
  /\ inflight' = [inflight EXCEPT ![c].pc = "RESPONDED"]
  /\ UNCHANGED <<authVars, job, shm, render_dirs, routerVars, handler>>

\* animate runs up to NamedTemporaryFile: it raises before (404, the decoding,
\* 400), or the scratch file is created, or its creation raises.
CallCreateScratch(c) ==
  /\ inflight[c].pc = "AWAIT"
  /\ EventLoopFree(c)
  /\ \/ /\ inflight' = [inflight EXCEPT ![c].pc = "RESPONDED"]
        /\ UNCHANGED shm
     \/ /\ \E i \in 1..Len(ScratchNames) : ScratchNames[i] \notin shm
        /\ shm' = shm \cup {FreshName(shm)}
        /\ inflight' = [inflight EXCEPT ![c].pc = "WRITE",
                                        ![c].tmp_input = FreshName(shm)]
  /\ UNCHANGED <<authVars, job, render_dirs, routerVars, handler>>

\* _prepare_input_memory: write and flush, see WriteScratch.
CallWrite(c) ==
  /\ inflight[c].pc = "WRITE"
  /\ \E written \in BOOLEAN :
       inflight' = IF written
                   THEN [inflight EXCEPT ![c].pc = "PREPARE_INPUT"]
                   ELSE [inflight EXCEPT ![c].pc = "RESPONDED", ![c].leaked = TRUE]
  /\ UNCHANGED <<authVars, job, shm, render_dirs, routerVars, handler>>

\* prepare_input runs and the finally clause unlinks the scratch file; then
\* the other steps of the pipeline run, and the GLB is looked for.
CallPipeline(c) ==
  /\ inflight[c].pc = "PREPARE_INPUT"
  /\ shm' = shm \ {inflight[c].tmp_input}
  /\ \E produced \in BOOLEAN :
       inflight' = [inflight EXCEPT ![c].pc = IF produced THEN "RENDER" ELSE "RESPONDED"]
  /\ UNCHANGED <<authVars, job, render_dirs, routerVars, handler>>

\* animate: the render directory is named after the GLB of the pipeline, and
\* made unless os.makedirs raises.
CallRender(c) ==
  /\ inflight[c].pc = "RENDER"
  /\ \E stem \in {inflight[c].tmp_input, SharedStem}, made \in BOOLEAN :
       /\ inflight' = [inflight EXCEPT ![c].pc = "PACKAGE",
                                       ![c].output_dir = RenderDir(stem)]
       /\ render_dirs' = IF made THEN render_dirs \cup {RenderDir(stem)} ELSE render_dirs
  /\ UNCHANGED <<authVars, job, shm, routerVars, handler>>

\* animate: the response is built and the finally clause removes the render
\* directory, or fails to.
CallPackage(c) ==
  /\ inflight[c].pc = "PACKAGE"
  /\ inflight' = [inflight EXCEPT ![c].pc = "RESPONDED"]
  /\ \E removed \in BOOLEAN :
       render_dirs' = IF removed THEN render_dirs \ {inflight[c].output_dir}
                      ELSE render_dirs
  /\ UNCHANGED <<authVars, job, shm, routerVars, handler>>

\* The response has been sent.
CallSent(c) ==
  /\ inflight[c].pc = "RESPONDED"
  /\ inflight' = [inflight EXCEPT ![c] = NoInflight]
  /\ UNCHANGED <<authVars, job, shm, render_dirs, routerVars, handler>>

NextTwoCalls ==
  \/ \E c \in CallIds : CallReceive(c)
  \/ \E c \in CallIds : CallRefused(c)
  \/ \E c \in CallIds : CallCreateScratch(c)
  \/ \E c \in CallIds : CallWrite(c)
  \/ \E c \in CallIds : CallPipeline(c)
  \/ \E c \in CallIds : CallRender(c)
  \/ \E c \in CallIds : CallPackage(c)
  \/ \E c \in CallIds : CallSent(c)

SpecTwoCalls == Init /\ [][NextTwoCalls]_vars

\* The body of animate, once entered, runs to its end (it blocks the loop, and
\* every step of it returns or raises), and the framework sends the response.
\* The event loop runs its ready callbacks in the order they became ready, so
\* a call that waits is run when the loop is free again and again.
CallStart(c) == CallRefused(c) \/ CallCreateScratch(c)

CallProgress(c) ==
  CallWrite(c) \/ CallPipeline(c) \/ CallRender(c) \/ CallPackage(c) \/ CallSent(c)

SpecTwoCallsFair ==
  /\ SpecTwoCalls
  /\ \A c \in CallIds : WF_vars(CallProgress(c)) /\ SF_vars(CallStart(c))

\* ------------------------------------------- the two entry points of a caller

\* The dispatcher and a worker are two processes that share no state, so a
\* step of one commutes with every step of the other: a behaviour of
\* SpecEntryPoints follows the requests that one of the two services receives
\* while the other has received nothing yet.
DispatcherUntouched == InitEnvelope /\ server_cycle = Cycle(worker_servers)

WorkerUntouched == InitAuth /\ InitAnimate

NextEntryPoints ==
  \/ WorkerUntouched /\ NextEnvelope
  \/ DispatcherUntouched /\ NextAnimate

SpecEntryPoints == Init /\ [][NextEntryPoints]_vars

\* ------------------------------------------------- run_job (job_handler.py)

\* An exception of a statement of run_job: run_job has no try, the exception
\* leaves it and nothing after the statement runs.
Propagate(h, statement) == [h EXCEPT !.pc = "RAISED", !.raised = statement]

\* the statement returned: run_job goes on with the next one
Returned(h, event) == [h EXCEPT !.pc = Then(h.pc), !.trace = Append(h.trace, event)]

\* run_job(self, job): mesh_extension and mesh_path
RunJob ==
  /\ handler.pc = "IDLE"
  /\ \E url \in JobUrls, name \in {"running", "dancing"}, ok \in BOOLEAN :
       LET h == [NoHandler EXCEPT !.input_mesh_url = url, !.animation_name = name]
       IN handler' = IF ok THEN [h EXCEPT !.pc = RunJobOrder[1], !.mesh_path = MeshPath(url)]
                     ELSE Propagate(h, "_scratch_dir")
  /\ UNCHANGED <<routerVars, authVars, animateVars>>

\* self._download_file(job.input_mesh_url, mesh_path)
DownloadFile ==
  /\ handler.pc = "DOWNLOAD"
  /\ \E bytes \in DownloadedBytes, ok \in BOOLEAN :
       handler' = IF ok THEN Returned([handler EXCEPT !.file = bytes], "_download_file")
                  ELSE Propagate(handler, "_download_file")
  /\ UNCHANGED <<routerVars, authVars, animateVars>>

\* self._checkpoint("mesh_downloaded"): a call that raises may have recorded
\* the checkpoint before it raised.
CheckpointMeshDownloaded ==
  /\ handler.pc = "CHECKPOINT_MESH"
  /\ \E ok \in BOOLEAN, recorded \in BOOLEAN :
       LET h == Returned(handler, "_checkpoint:mesh_downloaded")
       IN /\ ok => recorded
          /\ handler' = IF ok THEN h
                        ELSE Propagate(IF recorded THEN [handler EXCEPT !.trace = h.trace]
                                       ELSE handler, "_checkpoint")
  /\ UNCHANGED <<routerVars, authVars, animateVars>>

\* with open(mesh_path, "rb") as f: mesh_bytes = f.read()
ReadMesh ==
  /\ handler.pc = "READ"
  /\ \E ok \in BOOLEAN :
       handler' = IF ok THEN Returned([handler EXCEPT !.mesh_bytes = handler.file], "open")
                  ELSE Propagate(handler, "open")
  /\ UNCHANGED <<routerVars, authVars, animateVars>>

\* db = run_pipeline(mesh_bytes, job.animation_name): _prepare_input_memory
\* raises for bytes that are no mesh, each stage can raise, and a pipeline that
\* returned has written the animated GLB or has left db.anim_vis_path None.
RunPipeline ==
  /\ handler.pc = "PIPELINE"
  /\ \E ok \in BOOLEAN, written \in BOOLEAN :
       LET called == [handler EXCEPT !.trace = Append(handler.trace, "run_pipeline:called")]
       IN handler' =
            IF ValidateMesh(handler.mesh_bytes) # NoResponse \/ ~ok
            THEN Propagate(called, "run_pipeline")
            ELSE Returned([called EXCEPT !.anim_vis_path =
                                           IF written THEN SharedStem ELSE Null],
                          "run_pipeline:returned")
  /\ UNCHANGED <<routerVars, authVars, animateVars>>

\* self._checkpoint("animation_generated")
CheckpointAnimationGenerated ==
  /\ handler.pc = "CHECKPOINT_ANIMATION"
  /\ \E ok \in BOOLEAN, recorded \in BOOLEAN :
       LET h == Returned(handler, "_checkpoint:animation_generated")
       IN /\ ok => recorded
          /\ handler' = IF ok THEN h
                        ELSE Propagate(IF recorded THEN [handler EXCEPT !.trace = h.trace]
                                       ELSE handler, "_checkpoint")
  /\ UNCHANGED <<routerVars, authVars, animateVars>>

\* glb_path = db.anim_vis_path; glb_url = self._upload_file(Path(glb_path),
\* Path("animation.glb")): Path(None) raises TypeError.
UploadFile ==
  /\ handler.pc = "UPLOAD"
  /\ \E ok \in BOOLEAN :
       handler' =
         IF handler.anim_vis_path = Null THEN Propagate(handler, "Path")
         ELSE IF ok
         THEN Returned([handler EXCEPT !.glb_url = "url:animation.glb"], "_upload_file")
         ELSE Propagate(handler, "_upload_file")
  /\ UNCHANGED <<routerVars, authVars, animateVars>>

\* return MakeItAnimatableJobUpdate(status="complete", output_glb_url=glb_url)
ReturnUpdate ==
  /\ handler.pc = "RETURN"
  /\ handler' = [Returned(handler, "return")
                   EXCEPT !.update = MakeItAnimatableJobUpdate(handler.glb_url)]
  /\ UNCHANGED <<routerVars, authVars, animateVars>>

\* run_job is over, by a return or by an exception: the handler is given the
\* next job.
JobOver ==
  /\ handler.pc \in {"RETURNED", "RAISED"}
  /\ handler' = NoHandler
  /\ UNCHANGED <<routerVars, authVars, animateVars>>

NextRunJob ==
  \/ RunJob
  \/ DownloadFile
  \/ CheckpointMeshDownloaded
  \/ ReadMesh
  \/ RunPipeline
  \/ CheckpointAnimationGenerated
  \/ UploadFile
  \/ ReturnUpdate
  \/ JobOver

SpecRunJob == Init /\ [][NextRunJob]_vars

\* ------------------------------------------------------------------ claims

PoolSize == Len(worker_servers)

\* The requests whose worker has been selected and whose answer is not yet sent.
Selected == {r \in Slots : worker[r] # NoWorker}

FourOutcomes == {"SUCCESS", "TIMEOUT", "CONNECT-FAILURE", "WORKER-ERROR"}

\* C1: with the cursor starting at 0, the i-th dispatch (counting from 0)
\* selects pool[i mod n], for every i, also i >= n.
C1_RoundRobin ==
  \A r \in Selected : worker[r] = worker_servers[(seq[r] % PoolSize) + 1]

\* The dispatch number n (the n+1-th), made while no other request is in
\* flight, selects the first worker again.
C1_Witness ==
  \E r \in Slots :
    /\ pc[r] = "SELECTING-WORKER"
    /\ seq[r] = PoolSize
    /\ worker[r] = worker_servers[1]
    /\ \A s \in Slots \ {r} : pc[s] = "NONE"

\* S is a batch: k <= n requests in flight together whose selections were
\* consecutive.
IsBatch(S) ==
  /\ S # {}
  /\ S \subseteq Selected
  /\ Cardinality(S) <= PoolSize
  /\ \A r, s \in S : r # s => seq[r] # seq[s]
  /\ \A r, s \in S : seq[r] - seq[s] < Cardinality(S)

BatchFirst(S) == CHOOSE r \in S : \A s \in S : seq[r] <= seq[s]

\* C2: k <= n concurrent dispatches select each worker at most once, and once
\* the k selections are made the cursor is at (start + k) mod n.
C2_ConcurrentDispatches ==
  \A S \in SUBSET Slots :
    IsBatch(S) =>
      /\ \A r, s \in S : r # s => worker[r] # worker[s]
      /\ (\A s \in S : seq[s] < dispatched) /\ (\E s \in S : seq[s] = dispatched - 1)
           => server_cycle.index
                = (cursor_seen[BatchFirst(S)] + Cardinality(S)) % PoolSize

\* Every slot holds a request whose worker has been selected; the selections
\* were consecutive, are the latest ones, and started from a cursor that was not 0.
C2_Witness ==
  /\ IsBatch(Slots)
  /\ Cardinality(Slots) > 1
  /\ cursor_seen[BatchFirst(Slots)] # 0
  /\ \A r \in Slots : pc[r] = "SELECTING-WORKER"
  /\ \E s \in Slots : seq[s] = dispatched - 1

\* The requests that pass the selection in a step.
PassSelection == {r \in Slots : pc[r] = "CREATED" /\ pc'[r] = "SELECTING-WORKER"}

\* C3: the cursor advances exactly once per request that reaches the worker
\* selection, whatever the outcome of its forward; no advance is lost or
\* duplicated and no two dispatches read the same cursor without an advance
\* between them.
C3_AdvanceOncePerDispatch ==
  /\ [](/\ server_cycle.index = dispatched % PoolSize
        /\ \A r \in Selected : cursor_seen[r] = seq[r] % PoolSize
        /\ \A r, s \in Selected : r # s => seq[r] # seq[s])
  /\ [][/\ Cardinality(PassSelection) <= 1
        /\ dispatched' = dispatched + Cardinality(PassSelection)
        /\ server_cycle'.index
             = (server_cycle.index + Cardinality(PassSelection)) % PoolSize]_vars

\* Two requests were dispatched; one ended in a connection failure, the other
\* in a success, and the cursor stands two positions on.
C3_Witness ==
  /\ dispatched = 2
  /\ server_cycle.index = 2
  /\ \E r, s \in Slots : pc[r] = "CONNECT-FAILURE" /\ pc[s] = "SUCCESS"

\* C4: when the connection to the selected worker cannot be established, the
\* request is answered 503 and no other worker is contacted for it.
C4_ConnectFailure503 ==
  \A r \in Slots :
    result[r].kind = "ConnectError" =>
      /\ pc[r] = "CONNECT-FAILURE"
      /\ response[r].status = 503
      /\ selections[r] = 1
      /\ contacted[r] = <<worker[r]>>

\* The second worker of the pool refused the connection.
C4_Witness ==
  \E r \in Slots :
    /\ result[r].kind = "ConnectError"
    /\ worker[r] = worker_servers[2]
    /\ response[r].status = 503

\* C5: whenever the forwarded call exceeds the timeout, in whichever phase,
\* the request is answered 504 and is complete at the Dispatcher.
C5_TimeoutAlways504 ==
  \A r \in Slots :
    result[r].kind \in TimeoutKinds =>
      pc[r] = "TIMEOUT" /\ response[r].status = 504

\* C6: for every non-success response of a worker the caller gets the worker's
\* status code and the worker's error detail unchanged.
C6_WorkerErrorVerbatim ==
  \A r \in Slots :
    result[r].kind = "response" /\ ~IsSuccess(result[r].status) =>
      /\ response[r].status = result[r].status
      /\ result[r].body.detail # Absent
           => response[r].body.detail = result[r].body.detail

\* A forward failed in a way that is no connection failure, no timeout and no
\* non-success status of the worker.
OtherFailure(res) ==
  \/ res.kind \notin {"none", "response", "ConnectError"} \cup TimeoutKinds
  \/ res.kind = "response" /\ IsSuccess(res.status) /\ ~IsJson(res.body)

\* C7: any other failure while relaying is answered 502 (bad gateway), not
\* left unhandled.
C7_OtherFailureBadGateway ==
  \A r \in Slots :
    OtherFailure(result[r]) => pc[r] # "UNHANDLED" /\ response[r].status = 502

InProgress == {"NONE", "CREATED", "SELECTING-WORKER", "FORWARDING"}

\* The order of the states of one request.
LifecycleStep(from, to, outcomes) ==
  \/ from = to
  \/ from = "NONE" /\ to = "CREATED"
  \/ from = "CREATED" /\ to = "SELECTING-WORKER"
  \/ from = "SELECTING-WORKER" /\ to = "FORWARDING"
  \/ from = "FORWARDING" /\ to \in outcomes
  \/ from \in outcomes /\ to = "NONE"

C9_ForwardDoesNotBlock ==
  \A r \in Slots :
    pc[r] = "FORWARDING" =>
      /\ HasRoom => ENABLED (\E s \in Slots : Arrive(s))
      /\ \A s \in Slots \ {r} :
           /\ pc[s] = "CREATED" => ENABLED Select(s)
           /\ pc[s] = "SELECTING-WORKER" => ENABLED Forward(s)
           /\ pc[s] = "FORWARDING" => ENABLED Complete(s)

\* A later request to another worker has completed while an earlier one is
\* still waiting for its worker.
C9_Witness ==
  \E r, s \in Slots :
    /\ pc[r] = "FORWARDING"
    /\ pc[s] = "SUCCESS"
    /\ seq[s] > seq[r]
    /\ worker[s] # worker[r]

C11_BodyIdentical == forwarded # NoCall => forwarded.json = request.body

\* C11, amended: the body sent to the worker is the caller's body as validated
\* by AnimationRequest: the required members are the caller's, a declared
\* option carries the value the caller's stands for or its default when the
\* caller left it out, and a member that is not declared is dropped.
C11_BodyValidated ==
  forwarded # NoCall =>
    /\ forwarded.json.mesh_b64_str = request.body.mesh_b64_str
    /\ forwarded.json.animation_name = request.body.animation_name
    /\ request.body.is_gs = Absent => forwarded.json.is_gs = "false"
    /\ request.body.is_gs \in {"true", "\"yes\""} => forwarded.json.is_gs = "true"
    /\ request.body.animation_file = Absent => forwarded.json.animation_file = "null"
    /\ request.body.animation_file # Absent
         => forwarded.json.animation_file = request.body.animation_file
    /\ forwarded.json.extra = Absent

\* A body with an undeclared member, a boolean given as a string and no
\* animation_file has been forwarded.
C11_Witness ==
  /\ forwarded # NoCall
  /\ request.body.extra # Absent
  /\ request.body.is_gs = "\"yes\""
  /\ request.body.animation_file = Absent

\* C12: the headers of the forwarded call are exactly the content-type marker,
\* the caller's authorization header if present and the caller's API-key header
\* if present; no other caller header is forwarded and no absent credential is
\* made up.
C12_ForwardedHeaders ==
  forwarded # NoCall =>
    /\ forwarded.headers.content_type = "application/json"
    /\ forwarded.headers.authorization = request.headers.authorization
    /\ forwarded.headers.x_api_key = request.headers.x_api_key
    /\ forwarded.headers.cookie = Absent

\* A call was forwarded for a caller that sent a cookie and an API key and no
\* authorization header.
C12_Witness ==
  /\ forwarded # NoCall
  /\ request.headers.cookie # Absent
  /\ request.headers.x_api_key # Absent
  /\ request.headers.authorization = Absent
  /\ forwarded.headers.authorization = Absent

\* C13: in every reachable state the worker pool is the non-empty ordered list
\* configured at startup; no operation adds, removes or reorders a worker.
C13_PoolImmutable ==
  /\ [](/\ Len(worker_servers) > 0
        /\ \E env \in Envs : worker_servers = WorkerServersList(env)
        /\ server_cycle.saved = worker_servers)
  /\ [][worker_servers' = worker_servers]_vars

\* A dispatch has failed on an unreachable worker and a health check is being
\* answered.
C13_Witness ==
  /\ stage = "CONNECT-FAILURE"
  /\ health # NoHealth
  /\ worker_servers = WorkerServersList("prod")

\* C14: Health leaves the Dispatcher state unchanged (cursor, pool, requests,
\* calls to workers) and returns status "ok" with the configured worker
\* addresses, whatever the workers' availability.
C14_HealthIsPureRead ==
  [][health = NoHealth /\ health' # NoHealth =>
       /\ UNCHANGED <<worker_servers, server_cycle, request, stage, forwarded,
                      answer, dispatchVars>>
       /\ health'.status = "ok"
       /\ health'.configured_workers = worker_servers]_vars

\* Health answers "ok" with the three workers just after a worker refused the
\* connection.
C14_Witness ==
  /\ health.status = "ok"
  /\ Len(health.configured_workers) = 3
  /\ stage = "CONNECT-FAILURE"
  /\ server_cycle.index = 1

\* --------------------------------------------- claims on the authentication gate

Hit(v) == verify[v].pc = "DONE" /\ verify[v].hit

Miss(v) == verify[v].pc = "DONE" /\ ~verify[v].hit /\ verify[v].cred # NoCredential

Finishes(v) == verify[v].pc # "DONE" /\ verify'[v].pc = "DONE"

\* C17: a verification that fails leaves the authorization cache unchanged; the
\* next Verify of the same credential that finds no entry queries the identity
\* service again and succeeds when the service accepts the credential.
C17_FailureNotCached ==
  /\ [][\A v \in Verifiers :
          Finishes(v) /\ verify'[v].outcome.status # 200 => auth_cache' = auth_cache]_vars
  /\ [](\A v \in Verifiers :
          Miss(v) /\ verify[v].retry =>
            /\ verify[v].primary # NotAsked
            /\ verify[v].primary = "accept" => verify[v].outcome.status = 200
            /\ GoesOn(verify[v].primary) /\ verify[v].fallback = "accept"
                 => verify[v].outcome.status = 200)

\* A verifier whose last call for the credential failed has asked the service
\* again, was accepted by the fallback endpoint, and the record is now cached.
C17_Witness ==
  \E v \in Verifiers :
    /\ Miss(v)
    /\ verify[v].retry
    /\ verify[v].primary = "reject"
    /\ verify[v].fallback = "accept"
    /\ verify[v].outcome.status = 200
    /\ auth_cache[CacheKey(verify[v].cred)] = Entry(UserData(verify[v].cred))

\* C18: while the entry of a credential is in the cache (for CACHE_TTL seconds
\* after it was stored) a Verify of the credential returns the stored record
\* without asking the identity service; an entry is removed only by the passing
\* of time and only when its TTL has run out, it is removed then, and a Verify
\* that finds no entry asks the identity service.
C18_CachedForTTL ==
  /\ [][\A v \in Verifiers :
          verify[v].pc = "LOOKUP" /\ verify'[v].pc # "LOOKUP" =>
            IF auth_cache[CacheKey(verify[v].cred)] # NoEntry
            THEN /\ verify'[v].pc = "DONE"
                 /\ verify'[v].outcome = Verified(auth_cache[CacheKey(verify[v].cred)].value)
                 /\ verify'[v].primary = NotAsked
                 /\ verify'[v].fallback = NotAsked
                 /\ auth_cache' = auth_cache
            ELSE verify'[v].pc = "PRIMARY"]_vars
  /\ [][\A k \in CacheKeys :
          auth_cache[k] # NoEntry /\ auth_cache'[k] = NoEntry =>
            /\ verify' = verify
            /\ auth_cache[k].ttl_left <= ClockStep]_vars
  /\ [](\A k \in CacheKeys :
          auth_cache[k] # NoEntry => auth_cache[k].ttl_left \in 1..CACHE_TTL)

\* A Verify was answered from an entry stored half a TTL ago, while the other
\* verifier is the one that stored it.
C18_Witness ==
  \E v, w \in Verifiers :
    /\ Hit(v)
    /\ auth_cache[CacheKey(verify[v].cred)].ttl_left = CACHE_TTL - ClockStep
    /\ Miss(w)
    /\ verify[w].cred = verify[v].cred
    /\ verify[w].outcome.status = 200

\* C19 as stated: every Verify returns the outcome the gate without the cache
\* would return with the answers the identity service gives at that moment.
C19_SameAsUncached ==
  \A v \in Verifiers : verify[v].pc = "DONE" => verify[v].outcome = verify[v].uncached

\* C19, amended: a Verify that finds no entry returns the outcome of the gate
\* without the cache; a Verify that finds an entry returns the record of its own
\* credential stored at most CACHE_TTL seconds earlier, whatever the identity
\* service would answer now.
C19_SameOnMiss ==
  \A v \in Verifiers :
    /\ Miss(v) => verify[v].outcome = verify[v].uncached
    /\ Hit(v) => verify[v].outcome = Verified(UserData(verify[v].cred))

\* A Verify was answered with success from the cache although the identity
\* service rejects the credential by now.
C19_Witness ==
  \E v \in Verifiers :
    /\ Hit(v)
    /\ verify[v].outcome.status = 200
    /\ verify[v].uncached = Refused(403)

\* ----------------------------------------------- claims on the worker's animate

JobVerify == verify[JobVerifier]

IdentityAsked == {JobVerify.primary, JobVerify.fallback} # {NotAsked}

Resolved == job.checked # NoPath /\ job.payload.animation_file = job.checked

PipelineCalled == \E i \in 1..Len(job.calls), k \in 1..Len(PipelineStages) :
                    job.calls[i] = PipelineStages[k]

\* C15: a request with neither an x-api-key nor an Authorization header is
\* answered 401, and nothing has been touched for it: no cache lookup and no
\* query of the identity service, no lookup in the animation library, no
\* scratch file, no pipeline call.
C15_MissingCredential401 ==
  job.pc # "NONE" /\ job.headers.x_api_key = Absent /\ job.headers.authorization = Absent =>
    /\ job.pc \in {"VERIFY", "RESPONDED"}
    /\ job.pc = "RESPONDED" => job.response = HTTPException(401, "Missing auth header")
    /\ ~IdentityAsked
    /\ ~JobVerify.hit
    /\ job.payload = NoPayload
    /\ job.checked = NoPath
    /\ job.tmp_input = NoFile
    /\ job.calls = <<>>

\* A request without credential headers has been answered 401.
C15_Witness ==
  /\ job.pc = "RESPONDED"
  /\ job.headers.x_api_key = Absent
  /\ job.headers.authorization = Absent
  /\ job.response.status = 401

\* C16 as stated: on a cache miss the fallback is asked only when the primary
\* did not return success, Verify succeeds exactly when one of them returned
\* success, and else the request is answered 403 without a pipeline call.
C16_Only403 ==
  job.pc # "NONE" /\ JobVerify.pc = "DONE" /\ ~JobVerify.hit /\ JobVerify.cred # NoCredential =>
    /\ JobVerify.fallback # NotAsked => JobVerify.primary # "accept"
    /\ JobVerify.outcome.status = 200 <=> "accept" \in {JobVerify.primary, JobVerify.fallback}
    /\ "accept" \notin {JobVerify.primary, JobVerify.fallback} =>
         /\ JobVerify.outcome.status = 403
         /\ ~PipelineCalled

\* C16, amended: on a cache miss the primary endpoint is asked first and the
\* fallback exactly when the primary answered with another status than 200 or
\* could not be reached; Verify succeeds exactly when the last endpoint asked
\* answered 200 with the user's record; when both refused or could not be
\* reached the request is answered 403; when an endpoint answered 200 with a
\* body that is not JSON the request is answered 500 and the fallback is not
\* asked; without success animate is not called.
C16_PrimaryThenFallback ==
  job.pc # "NONE" /\ JobVerify.pc = "DONE" /\ ~JobVerify.hit /\ JobVerify.cred # NoCredential =>
    /\ JobVerify.primary # NotAsked
    /\ JobVerify.fallback # NotAsked <=> JobVerify.primary \in {"reject", "unreachable"}
    /\ JobVerify.outcome.status = 200 <=> "accept" \in {JobVerify.primary, JobVerify.fallback}
    /\ {JobVerify.primary, JobVerify.fallback} \subseteq {"reject", "unreachable"}
         => JobVerify.outcome.status = 403
    /\ "garbled" \in {JobVerify.primary, JobVerify.fallback} => JobVerify.outcome.status = 500
    /\ JobVerify.outcome.status # 200 =>
         /\ job.pc \in {"VERIFY", "RESPONDED"}
         /\ job.pc = "RESPONDED" => job.response.status = JobVerify.outcome.status
         /\ job.payload = NoPayload
         /\ job.calls = <<>>

\* The primary endpoint refused, the fallback could not be reached, and the
\* request has been answered 403.
C16_Witness ==
  /\ job.pc = "RESPONDED"
  /\ ~JobVerify.hit
  /\ JobVerify.primary = "reject"
  /\ JobVerify.fallback = "unreachable"
  /\ job.response = HTTPException(403, "Invalid credentials")

\* C20: an authenticated request for an animation of the library whose mesh
\* decodes to no bytes is answered 400; no scratch file is created for it and
\* no step of the pipeline is called.
C20_EmptyMesh400 ==
  Resolved /\ B64Decode(job.payload.mesh_b64_str) = <<>> =>
    /\ job.pc \in {"DECODE", "PREPARE", "RESPONDED"}
    /\ job.pc = "RESPONDED" => job.response = HTTPException(400, "Received empty mesh data")
    /\ job.tmp_input = NoFile
    /\ job.calls = <<"os.path.exists">>

\* A request with an empty mesh has been answered 400 after the animation file
\* was found.
C20_Witness ==
  /\ job.pc = "RESPONDED"
  /\ Resolved
  /\ job.payload.mesh_b64_str = ""
  /\ job.mesh_bytes = <<>>
  /\ job.response.status = 400

\* ------------------------------------------------------------------ C21..C30

\* the calls that the handler of the request has made
CallsMade == {job.calls[i] : i \in 1..Len(job.calls)}

\* _prepare_input_memory has gone past its checks of a mesh that is not empty
Classified ==
  /\ job.decoded
  /\ job.mesh_bytes # <<>>
  /\ job.pc \notin {"DECODE", "PREPARE"}

\* C21: the mesh classification is total over non-empty byte strings: bytes
\* that start with "glTF" get a scratch file of suffix .glb, bytes that start
\* with "Kaydara FBX" one of suffix .fbx, and bytes of every other prefix are
\* answered 400 with no scratch file created and no pipeline step called.
C21_ClassificationTotal ==
  Classified =>
    IF Len(job.mesh_bytes) >= 4
       /\ SubSeq(job.mesh_bytes, 1, 4) = <<"g", "l", "T", "F">>
    THEN job.ext = ".glb" /\ "NamedTemporaryFile" \in CallsMade
    ELSE IF Len(job.mesh_bytes) >= 11
            /\ SubSeq(job.mesh_bytes, 1, 11)
                 = <<"K", "a", "y", "d", "a", "r", "a", " ", "F", "B", "X">>
    THEN job.ext = ".fbx" /\ "NamedTemporaryFile" \in CallsMade
    ELSE /\ job.pc = "RESPONDED"
         /\ job.response = HTTPException(400, "Unsupported mesh format")
         /\ job.tmp_input = NoFile
         /\ job.calls = <<"os.path.exists">>

\* a mesh of three bytes of the GLB signature has been answered 400
C21_TruncatedSignatureRejected ==
  /\ Classified
  /\ job.mesh_bytes = <<"g", "l", "T">>
  /\ job.response.status = 400


\* C22: a request whose animation_name is none of the five names is answered
\* with a validation error (422) by the dispatcher, which forwards nothing,
\* and by the worker, which calls no step of the pipeline and decodes nothing.
C22_UnknownAnimationRejected ==
  /\ (request # NoRequest /\ request.body.animation_name \notin AnimationNames)
       => /\ stage = "REJECTED"
          /\ answer = HTTPException(422, "validation error")
          /\ forwarded = NoCall
  /\ (job.payload # NoPayload /\ job.payload.animation_name \notin AnimationNames)
       => /\ job.pc = "RESPONDED"
          /\ job.response = HTTPException(422, "validation error")
          /\ job.calls = <<>>
          /\ ~job.decoded

\* the worker has answered an authenticated request for "dancing"
C22_WorkerRejectedDancing ==
  /\ JobVerify.outcome.status = 200
  /\ job.payload.animation_name = "dancing"
  /\ job.response.status = 422


\* the request of the job fails a validation of the client's input: its
\* animation_name is unknown, or its mesh_b64_str is no base64, or the decoded
\* mesh is empty or of no known signature
ClientInvalid ==
  /\ job.payload # NoPayload
  /\ \/ ~ValidBody(job.payload)
     \/ B64Decode(job.payload.mesh_b64_str) = DecodeError
     \/ ValidateMesh(B64Decode(job.payload.mesh_b64_str)) # NoResponse

\* C23: every request that fails a validation of the client's input is
\* answered with a status of the 4xx class, never with a 5xx.
C23_ClientFailure4xx ==
  (job.pc = "RESPONDED" /\ ClientInvalid) => job.response.status \in 400..499


\* C24: when the animation file of the library is not there, the request is
\* answered 404 and the handler has done nothing else: the mesh is not
\* decoded, no scratch file is created and no pipeline step is called.
C24_MissingAnimation404 ==
  (job.checked # NoPath /\ ~job.found) =>
    /\ job.pc = "RESPONDED"
    /\ job.response = HTTPException(404, "Animation file not found")
    /\ ~job.decoded
    /\ job.tmp_input = NoFile
    /\ job.calls = <<"os.path.exists">>

\* a request of a valid GLB mesh has been answered 404
C24_ValidMeshAnswered404 ==
  /\ job.checked = LibraryPath("running")
  /\ ~job.found
  /\ job.payload.mesh_b64_str = "Z2xURg=="
  /\ job.response.status = 404


\* C25: when the call has come to its response, on whatever path, the scratch
\* file that it created is no longer in /dev/shm.
C25_NoScratchLeft ==
  job.pc = "RESPONDED" => job.tmp_input \notin shm


\* a call works with its scratch file from NamedTemporaryFile to the finally
\* clause of _prepare_input_memory, and with its render directory from
\* os.makedirs to the finally clause of animate
UsesScratch(c) == inflight[c].pc \in {"WRITE", "PREPARE_INPUT"}

UsesDir(c) == inflight[c].pc = "PACKAGE"

PipelineRaised ==
  \E k \in 1..Len(PipelineStages) : job.raised = PipelineStages[k]

\* C27: an exception of a step of the pipeline is caught: the request gets a
\* 500 and its scratch file is gone; when the response is sent the worker is
\* where it was before the request (no call in hand, /dev/shm, the render
\* directories and the cache of the gate untouched), so that it handles the
\* next request as it handles the first.
C27_PipelineFailureContained ==
  /\ [](PipelineRaised =>
          /\ job.pc = "RESPONDED"
          /\ job.response.status = 500
          /\ job.tmp_input \notin shm
          /\ ENABLED AnimateSent)
  /\ [][PipelineRaised => job' = NoJob /\ UNCHANGED <<shm, render_dirs, authVars>>]_vars

\* infer has raised for a request, which has been answered 500
C27_InferRaised ==
  /\ job.raised = "infer"
  /\ job.calls = <<"os.path.exists", "NamedTemporaryFile", "prepare_input",
                   "preprocess", "infer">>
  /\ job.response = HTTPException(500, "Pipeline failed")


\* C28: the pipeline is called with what the request asked for: vis_blender
\* gets the animation file that the handler checked and put into the payload,
\* and the options of the payload (no_fingers), so that two requests that
\* differ in an option lead to calls that differ.
C28_PipelineGetsRequest ==
  job.vis_blender # NoArgs =>
    /\ job.vis_blender.animation_file = job.payload.animation_file
    /\ job.vis_blender.animation_file = job.checked
    /\ job.vis_blender.remove_fingers = job.payload.no_fingers


\* a step of the rendering block has raised an exception
RenderRaised ==
  \E k \in 1..Len(RenderSteps) : job.raised = RenderSteps[k]

\* C29: when the pipeline has produced its GLB and a step of the rendering of
\* the previews raises, the request is still answered 200 with the GLB in
\* mesh_base64, and each preview that was not made is null in the response.
C29_RenderFailureStillSuccess ==
  (job.pc = "RESPONDED" /\ RenderRaised) =>
    /\ job.response.status = 200
    /\ job.response.body.mesh_base64 = "glb"
    /\ job.response.body.gif_base64 = Null
    /\ job.response.body.thumbnail_base64 = IF job.thumbnail THEN "png" ELSE Null

\* render_thumbnail has raised and the request has been answered
C29_ThumbnailRaisedAnswered ==
  /\ job.pc = "RESPONDED"
  /\ job.raised = "render_thumbnail"
  /\ job.response.body = Artifacts("glb", Null, Null)

\* C30: the rendering of the thumbnail and the rendering of the GIF are
\* independent: when one of them raises, the other one is still called.
C30_RenderStepsIndependent ==
  job.pc \in {"PACKAGE", "RESPONDED"} /\ job.raised \in {"render_thumbnail", "render_frames"} =>
    /\ "render_thumbnail" \in CallsMade
    /\ "render_frames" \in CallsMade


\* ------------------------------------------------------------------ C31..C39

\* C31: every 200 of animate has the three keys mesh_base64, gif_base64 and
\* thumbnail_base64: mesh_base64 holds the GLB, and each of the two others
\* holds its file or null.
C31_ThreeFieldsAlways ==
  job.response.status = 200 =>
    /\ DOMAIN job.response.body = {"mesh_base64", "gif_base64", "thumbnail_base64"}
    /\ job.response.body.mesh_base64 = "glb"
    /\ job.response.body.gif_base64 \in {"gif", Null}
    /\ job.response.body.thumbnail_base64 \in {"png", Null}

\* a 200 with the thumbnail and without the GIF
C31_SuccessWithoutGif ==
  /\ job.response.status = 200
  /\ job.thumbnail
  /\ ~job.gif


\* C32 as stated: when the call has come to its response, the render
\* directory that it named is not there.
C32_RenderDirGone ==
  (job.pc = "RESPONDED" /\ job.output_dir # NoDir) => job.output_dir \notin render_dirs

\* C32: on every way out of animate (200, a rendering step raised, the
\* packaging raised) rmtree is called when the render directory is there, and
\* the directory is gone unless rmtree itself has raised.
C32_RenderDirRemovalAttempted ==
  (job.pc = "RESPONDED" /\ job.output_dir # NoDir) =>
    /\ ~job.rmtree_raised => job.output_dir \notin render_dirs
    /\ job.output_dir \in render_dirs => "shutil.rmtree" \in CallsMade

\* the packaging has raised after the rendering, and the directory is gone
C32_PackagingRaisedDirGone ==
  /\ job.pc = "RESPONDED"
  /\ job.raised = "open"
  /\ job.response.status = 500
  /\ "render_frames" \in CallsMade
  /\ "shutil.rmtree" \in CallsMade
  /\ job.output_dir \notin render_dirs


\* the calls whose handler body (and with it the pipeline) is running
Running == {c \in CallIds : inflight[c].pc \in InBody}

\* C33: on one worker at most one call is inside its handler body at a time;
\* while one is, a call that has arrived is left as it is (it is neither
\* answered nor started), and it is answered in the end.
C33_OnePipelineAtATime ==
  /\ [](Cardinality(Running) <= 1)
  /\ [][\A c \in CallIds :
          (inflight[c].pc = "AWAIT" /\ ~EventLoopFree(c)) => inflight'[c] = inflight[c]]_vars
  /\ \A c \in CallIds : (inflight[c].pc = "AWAIT") ~> (inflight[c].pc = "RESPONDED")

\* a call waits while the pipeline of the other runs
C33_OneWaitsOneRuns ==
  /\ inflight["c1"].pc = "PREPARE_INPUT"
  /\ inflight["c2"].pc = "AWAIT"


\* C34: a verification that is answered from the cache gets the record that
\* was stored for its own header name and its own header value: never the
\* record of another value, nor the record of the same value under the other
\* header name.
C34_HitOfOwnPair ==
  \A v \in Verifiers :
    (verify[v].pc = "DONE" /\ verify[v].hit) =>
      /\ verify[v].outcome = Verified(UserData(verify[v].cred))
      /\ verify[v].outcome.data.user.name = verify[v].cred.name
      /\ verify[v].outcome.data.user.value = verify[v].cred.value

\* "k1" is answered from the cache as Authorization while the cache also
\* holds records of "k1" and of "k2" as x-api-key
C34_HitNextToOtherPairs ==
  /\ verify["v1"].pc = "DONE"
  /\ verify["v1"].hit
  /\ verify["v1"].cred = Credential("Authorization", "k1")
  /\ auth_cache[CacheKey(Credential("x-api-key", "k1"))] # NoEntry
  /\ auth_cache[CacheKey(Credential("x-api-key", "k2"))] # NoEntry


\* the request of the job carries both credential headers
BothHeaders ==
  /\ job.pc # "NONE"
  /\ job.headers.x_api_key # Absent
  /\ job.headers.authorization # Absent

\* the credential of x-api-key is the one verified, and the user of an
\* accepted request is the user of x-api-key
ApiKeyVerified ==
  /\ JobVerify.cred = Credential("x-api-key", job.headers.x_api_key)
  /\ JobVerify.pc = "DONE" =>
       JobVerify.outcome \in {Verified(UserData(Credential("x-api-key", job.headers.x_api_key))),
                              Refused(403), Refused(500)}

\* C35 as stated: for a request with both x-api-key and Authorization the
\* worker verifies the x-api-key header, whatever Authorization holds.
C35_ApiKeyOnly == BothHeaders => ApiKeyVerified

\* C35: for a request with an x-api-key that is not empty and with
\* Authorization, the worker verifies the x-api-key header: the credential
\* looked up and sent to the identity service, and the user of an accepted
\* request, are those of x-api-key whatever Authorization holds.
C35_NonEmptyApiKeyOnly ==
  (BothHeaders /\ job.headers.x_api_key # "") => ApiKeyVerified

\* a request with x-api-key "k2" and Authorization "k1" has been admitted as
\* the user of "k2"
C35_AdmittedByApiKey ==
  /\ BothHeaders
  /\ job.headers.x_api_key = "k2"
  /\ job.headers.authorization = "k1"
  /\ JobVerify.pc = "DONE"
  /\ JobVerify.outcome = Verified(UserData(Credential("x-api-key", "k2")))
  /\ job.pc = "RESOLVE"


\* C36: a request that the dispatcher rejects when it validates the body (no
\* mesh_b64_str, or an animation_name that is none of the five) is answered
\* 422 with no worker selected and nothing forwarded, and neither its
\* rejection nor its end moves the cycle: the requests that are accepted get
\* the workers they would get without it.
C36_RejectedLeavesCursor ==
  /\ []((request # NoRequest
          /\ (request.body.mesh_b64_str = Absent
                \/ request.body.animation_name \notin AnimationNames))
         => stage = "REJECTED" /\ answer.status = 422 /\ forwarded = NoCall)
  /\ [][(stage = "REJECTED" \/ stage' = "REJECTED")
          => UNCHANGED <<server_cycle, worker_servers>>]_vars

\* a request without mesh is rejected after one request was dispatched: the
\* cycle stays on the second worker
C36_RejectedAfterDispatch ==
  /\ stage = "REJECTED"
  /\ request.body.mesh_b64_str = Absent
  /\ request.body.animation_name = "running"
  /\ server_cycle.index = 1


\* C37: the file whose existence the worker checks and the file it gives to
\* vis_blender are determined by animation_name alone, for every value of
\* animation_file that the client sent.
C37_ClientFileIgnored ==
  /\ job.checked # NoPath => job.checked = LibraryPath(job.payload.animation_name)
  /\ job.vis_blender # NoArgs =>
       job.vis_blender = VisBlenderArgs(PipelinePath(job.payload.animation_name), FALSE)
  /\ job.found => job.payload.animation_file = LibraryPath(job.payload.animation_name)

\* a request that sent /tmp/x.fbx in animation_file: the file of the library
\* was checked, and was not there
C37_ClientFileSentLibraryChecked ==
  /\ job.payload.animation_file = ClientPath
  /\ job.payload.animation_name = "waving"
  /\ job.checked = LibraryPath("waving")
  /\ job.response.status = 404


\* the elements of a list of ports
PortSet(ports) == {ports[i] : i \in 1..Len(ports)}

\* C38: the pool of the dispatcher is the pool of one of the two
\* environments, and for that environment the workers it routes to are the
\* ports on which the launcher starts workers and the worker ports that the
\* kill script targets; the port on which the launcher starts the dispatcher
\* is the one the kill script targets and is none of the pool.
C38_PortsAgree ==
  \E env \in Envs :
    /\ worker_servers = WorkerServersList(env)
    /\ WorkerPorts(env) = LaunchConfig(env).worker_ports
    /\ WorkerPorts(env) = KillConfig(env).worker_ports
    /\ PortSet(AllPorts(KillConfig(env))) = PortSet(AllPorts(LaunchConfig(env)))
    /\ KillConfig(env).router_port = LaunchConfig(env).router_port
    /\ LaunchConfig(env).router_port \notin PortSet(worker_servers)

\* the dispatcher of prod has sent a request to its worker on port 9002
C38_ProdDispatched ==
  /\ worker_servers = LaunchConfig("prod").worker_ports
  /\ \E r \in Slots : worker[r] = 9002

\* the position of an event in what run_job has done, 0 when it did not happen
At(event) ==
  IF \E i \in 1..Len(handler.trace) : handler.trace[i] = event
  THEN CHOOSE i \in 1..Len(handler.trace) : handler.trace[i] = event
  ELSE 0

\* C39: in run_job the checkpoint "mesh_downloaded" is recorded only after
\* the download finished and before the pipeline starts, the checkpoint
\* "animation_generated" only after the pipeline returned and before the
\* upload, and the "complete" update is returned only after the upload; once a
\* statement raised, nothing more is recorded and no update is returned.
C39_RunJobOrder ==
  /\ [](/\ At("_checkpoint:mesh_downloaded") > 0 =>
             /\ At("_download_file") > 0
             /\ At("_download_file") < At("_checkpoint:mesh_downloaded")
        /\ At("run_pipeline:called") > 0 =>
             /\ At("_checkpoint:mesh_downloaded") > 0
             /\ At("_checkpoint:mesh_downloaded") < At("run_pipeline:called")
        /\ At("_checkpoint:animation_generated") > 0 =>
             /\ At("run_pipeline:returned") > 0
             /\ At("run_pipeline:returned") < At("_checkpoint:animation_generated")
        /\ At("_upload_file") > 0 =>
             /\ At("_checkpoint:animation_generated") > 0
             /\ At("_checkpoint:animation_generated") < At("_upload_file")
        /\ handler.update.status = "complete" =>
             /\ At("_upload_file") > 0
             /\ handler.raised = NoRaise
        /\ handler.raised # NoRaise => handler.update = NoUpdate)
  /\ [][handler.raised # NoRaise => handler' = NoHandler]_vars

\* a run of run_job that returned the "complete" update
C39_CompleteReturned ==
  /\ handler.pc = "RETURNED"
  /\ handler.update.status = "complete"
  /\ Len(handler.trace) = 8


====
